---- MODULE Spec2Model ----
(***************************************************************************)
(* IdleWow: idle combat, progression and save/migration kernel.            *)
(*                                                                         *)
(* The repository holds two builds of the same application:                *)
(*   "lenient"  = src/index.tsx          (defeat revives without penalty)  *)
(*   "punitive" = src/unnamed/part_000   (defeat penalty, reincarnation,   *)
(*                                        fury, passive arts)              *)
(* The variable `build` selects the build; it never changes.               *)
(*                                                                         *)
(* Units.  hp, mana, monster damage are kept in TENTHS of a point, since   *)
(* the code adds sta*0.2 and int*0.1 per tick and zone monsters hit for    *)
(* x.5 values.  Monster hp is kept in 1/10000 of a point (MobUnit), since  *)
(* a hit is floor(roll) * skill multiplier (two decimals) * crit           *)
(* multiplier (two decimals) and is subtracted unfloored.                  *)
(***************************************************************************)
EXTENDS Integers, Sequences, FiniteSets, TLC

VARIABLES
    build,        \* which source file is running
    appMode,      \* 'slot-select' | 'create-char' | 'game'
    currentSlot,  \* useState currentSlot
    player,       \* useState<PlayerStats>
    equipment,    \* useState<Record<ItemSlot, Item|null>>
    inventory,    \* useState<Item[]>
    zone,         \* useState<Zone>, as an index into ZONES
    combat,       \* useState combat.mob (NoMob when null)
    tempAlloc,    \* useState tempAlloc
    modal,        \* the show*Modal flags
    storage,      \* localStorage, per save slot
    now,          \* Date.now(), in milliseconds
    saveTimer,    \* the autosave interval: when it was installed, and the time
                  \* game mode was entered or the last autosave ran
    ev,           \* what the last handler did (history, for stating claims)
    logs          \* log entries added by the last handler, oldest first

vars == <<build, appMode, currentSlot, player, equipment, inventory, zone,
          combat, tempAlloc, modal, storage, now, saveTimer, ev, logs>>

(***************************************************************************)
(* Bounds of the exploration (not program constants).                      *)
(***************************************************************************)
\* handlers run (ticks and clicks) since the application started
MaxSteps == 3
\* ticks are explored for this many kills after a character is loaded or created
MaxKills == 1
\* the clock steps stop advancing the time after this many seconds
MaxNow == 6
\* highest level a persisted legacy record carries
MaxLegacyLevel == 11
\* ticks run in the exploration of the first encounter of a loaded game
MaxFightSteps == 12
\* handlers run in the exploration of a new character's first fights: the
\* slot card, the creation and the welcome modal, then eight ticks a monster
\* for the three monsters of the tutorial
MaxTutorialSteps == 27

(***************************************************************************)
(* Program constants.                                                      *)
(***************************************************************************)
INVENTORY_CAP == 50
InventoryCapPunitive == 20
TutorialKills == 3
SkillUnlockLevel == 10
MinAttribute == 5
MaxRage == 100
MobCount == 22
MysteryPrice == 2000
ResetPrice == 1000
PotionPrice == 500
FuryCost == 10
\* setInterval delays, in milliseconds: the autosave, the combat loop at speed 1
AutosavePeriod == 5000
TickPeriod == 1000
\* monster hp is kept in units of 1/MobUnit
MobUnit == 100 * 100

Builds == {"lenient", "punitive"}
Slots == 0..2
StatTypes == {"str", "agi", "int", "sta"}
ItemSlots == {"weapon", "head", "chest", "legs"}
Undefined == "undefined"

Min(a, b) == IF a < b THEN a ELSE b
Max(a, b) == IF a > b THEN a ELSE b

\* {...a, ...b}: object spread, later keys win
Spread(a, b) ==
    [k \in (DOMAIN a) \cup (DOMAIN b) |-> IF k \in DOMAIN b THEN b[k] ELSE a[k]]

\* The outcomes explored of a uniform roll (or of an ordered input) with the n
\* outcomes 0..n-1: the lowest and the highest.
Rolls(n) == {k \in 0..(n - 1) : k = 0 \/ k = n - 1}

\* IdleWowUtil.randInt(min, max) on tenths: floor(random * (max - min + 1)) + min
RandInt(minT, maxT) ==
    {minT + 10 * k : k \in Rolls((maxT - minT + 10 + 9) \div 10)}

\* Math.random() < p for a probability given in 1/1000: the outcomes possible
Chance(pMille) ==
    IF pMille <= 0 THEN {FALSE} ELSE IF pMille >= 1000 THEN {TRUE} ELSE {TRUE, FALSE}

(***************************************************************************)
(* Content tables.                                                         *)
(***************************************************************************)
SKILL_DB ==
    [heroic_strike |-> [id |-> "heroic_strike", cost |-> 15, costType |-> "rage", minLevel |-> 10, reqClass |-> "warrior", dmgMult |-> 12],
     mortal_strike |-> [id |-> "mortal_strike", cost |-> 30, costType |-> "rage", minLevel |-> 10, reqClass |-> "warrior", dmgMult |-> 15],
     execute       |-> [id |-> "execute",       cost |-> 40, costType |-> "rage", minLevel |-> 10, reqClass |-> "warrior", dmgMult |-> 30],
     fireball      |-> [id |-> "fireball",      cost |-> 10, costType |-> "mana", minLevel |-> 10, reqClass |-> "mage",    dmgMult |-> 13],
     frostbolt     |-> [id |-> "frostbolt",     cost |-> 10, costType |-> "mana", minLevel |-> 10, reqClass |-> "mage",    dmgMult |-> 10],
     arcane_blast  |-> [id |-> "arcane_blast",  cost |-> 30, costType |-> "mana", minLevel |-> 10, reqClass |-> "mage",    dmgMult |-> 20]]

SkillIds == DOMAIN SKILL_DB

NoStats == [s \in StatTypes |-> 0]

MARTIAL_ARTS_DB ==
    [art_1 |-> [cost |-> 1,  stats |-> [str |-> 5,   agi |-> 5,   int |-> 5,   sta |-> 5]],
     art_2 |-> [cost |-> 5,  stats |-> [str |-> 20,  agi |-> 0,   int |-> 0,   sta |-> 20]],
     art_3 |-> [cost |-> 10, stats |-> [str |-> 50,  agi |-> 0,   int |-> 20,  sta |-> 50]],
     art_4 |-> [cost |-> 10, stats |-> [str |-> 20,  agi |-> 50,  int |-> 50,  sta |-> 0]],
     art_5 |-> [cost |-> 50, stats |-> [str |-> 200, agi |-> 200, int |-> 200, sta |-> 200]]]

ArtIds == DOMAIN MARTIAL_ARTS_DB

ZONES ==
    << [id |-> "elwynn",         minLevel |-> 1,  maxLevel |-> 10],
       [id |-> "westfall",       minLevel |-> 10, maxLevel |-> 20],
       [id |-> "redridge",       minLevel |-> 20, maxLevel |-> 30],
       [id |-> "duskwood",       minLevel |-> 30, maxLevel |-> 40],
       [id |-> "stranglethorn",  minLevel |-> 40, maxLevel |-> 50],
       [id |-> "burningsteppes", minLevel |-> 50, maxLevel |-> 60],
       [id |-> "outland",        minLevel |-> 60, maxLevel |-> 70],
       [id |-> "northrend",      minLevel |-> 70, maxLevel |-> 80],
       [id |-> "pandaria",       minLevel |-> 80, maxLevel |-> 90],
       [id |-> "brokenisles",    minLevel |-> 90, maxLevel |-> 110] >>

ZoneIdx == 1..Len(ZONES)

\* generateZoneMobs: the i-th template (0-based) of zone z; damage in tenths
generateZoneMobs(z, i) ==
    LET minLvl == ZONES[z].minLevel
        maxLvl == ZONES[z].maxLevel
        lvl    == minLvl + ((i * (maxLvl - minLvl)) \div MobCount)
        isBoss == (i = MobCount - 1) \/ (i = MobCount \div 2)
    IN  [id      |-> <<z, i>>,
         level   |-> lvl + (IF isBoss THEN 2 ELSE 0),
         baseHp  |-> 20 + (lvl * 15) * (IF isBoss THEN 5 ELSE 1),
         minDmg  |-> 10 + lvl * 15,
         maxDmg  |-> 30 + lvl * 25,
         xpGiven |-> 10 + lvl * 5 * (IF isBoss THEN 4 ELSE 1),
         isBoss  |-> isBoss]

\* TutorialMob with the hp of a zone boss
TutorialMobTough(killed) ==
    [id |-> <<0, killed>>, level |-> 1, baseHp |-> 150, minDmg |-> 10, maxDmg |-> 20,
     xpGiven |-> 20, isBoss |-> FALSE]

\* the tutorial template built in the combat loop
TutorialMob(killed) ==
    [id |-> <<0, killed>>, level |-> 1, baseHp |-> 15, minDmg |-> 10, maxDmg |-> 20,
     xpGiven |-> 20, isBoss |-> FALSE]

(***************************************************************************)
(* Items.                                                                  *)
(***************************************************************************)
NoItem == [none |-> TRUE]
NoMob == [none |-> TRUE]
NoSave == [none |-> TRUE]

EmptyEquipment == [s \in ItemSlots |-> NoItem]

QualMult(q) == CASE q = "poor" -> 0 [] q = "common" -> 1 [] q = "rare" -> 2 [] q = "epic" -> 5

\* calculateItemScore trusting the score the item carries
calculateItemScoreStored(item) == item.score

\* IdleWowCore.calculateItemScore
calculateItemScore(item) ==
    (item.stats.str * 10) + (item.stats.agi * 10) + (item.stats.int * 10)
        + (item.stats.sta * 10) + (QualMult(item.quality) * 5)

(***************************************************************************)
(* IdleWowCore.                                                            *)
(***************************************************************************)
\* fields both builds give a fresh character
BaseStatsCommon(level, username) ==
    [username |-> username, class |-> "novice",
     str |-> 5, int |-> 5, sta |-> 5,
     attributePoints |-> Max(0, (level - 1) * 1),
     autoAllocMode |-> "manual",
     hp |-> 500, maxHp |-> 500, mana |-> 500, maxMana |-> 500, rage |-> 0,
     xp |-> 0, maxXp |-> level * 100, level |-> level,
     skillPoints |-> Max(0, level - 9),
     skills |-> << >>,
     mobsKilled |-> 0, gold |-> 0, potions |-> 0,
     godModeEnabled |-> (username = "cnm"),
     godModeAutoEquip |-> FALSE,
     gameSpeed |-> 1]

\* IdleWowCore.getBaseStats of build b
getBaseStats(b, level, username) ==
    IF b = "lenient"
    THEN Spread(BaseStatsCommon(level, username),
                [agi |-> 0, modelOverride |-> Undefined])
    ELSE Spread(BaseStatsCommon(level, username),
                [agi |-> 5, reincarnationUnlocked |-> FALSE, reincarnationPower |-> 0,
                 sixPathsPower |-> 0, furyEnabled |-> FALSE, passiveArts |-> << >>])

RECURSIVE SumOver(_, _)
\* sum of f[x] over the finite set of keys S
SumOver(f, S) ==
    IF S = {} THEN 0
    ELSE LET x == CHOOSE y \in S : TRUE IN f[x] + SumOver(f, S \ {x})

\* total bonus of stat s over the equipped items
EquipBonus(eq, s) ==
    SumOver([k \in ItemSlots |-> IF eq[k] = NoItem THEN 0 ELSE eq[k].stats[s]], ItemSlots)

\* total bonus of stat s over the owned passive arts (punitive build)
ArtBonus(p, s) ==
    IF "passiveArts" \notin DOMAIN p THEN 0
    ELSE SumOver([i \in 1..Len(p.passiveArts) |-> MARTIAL_ARTS_DB[p.passiveArts[i]].stats[s]],
                 1..Len(p.passiveArts))

\* agility -> critical chance, in 1/1000: 0.01 per point (lenient), 0.05 (punitive)
CritPerAgi(b) == IF b = "lenient" THEN 10 ELSE 50

\* effective value of attribute s: base + equipment + passive arts, doubled by fury
EffectiveStat(b, base, eq, s) ==
    LET raw == base[s] + EquipBonus(eq, s) + (IF b = "punitive" THEN ArtBonus(base, s) ELSE 0)
    IN  IF b = "punitive" /\ base.furyEnabled THEN raw * 2 ELSE raw

\* calculateCombatStats with the excess of the critical chance dropped
calculateCombatStatsNoOverflow(b, base, eq) ==
    LET str == EffectiveStat(b, base, eq, "str")
        agi == EffectiveStat(b, base, eq, "agi")
        int == EffectiveStat(b, base, eq, "int")
        sta == EffectiveStat(b, base, eq, "sta")
        rawCrit == agi * CritPerAgi(b)
    IN  [str |-> str, agi |-> agi, int |-> int, sta |-> sta,
         maxHp |-> sta * 100,
         maxMana |-> int * 100,
         ap |-> str * 2,
         crit |-> IF rawCrit > 1000 THEN 1000 ELSE rawCrit,
         critDmg |-> 200]

\* IdleWowCore.calculateCombatStats.  maxHp, maxMana in tenths; crit in 1/1000;
\* critDmg in 1/100.
calculateCombatStats(b, base, eq) ==
    LET str == EffectiveStat(b, base, eq, "str")
        agi == EffectiveStat(b, base, eq, "agi")
        int == EffectiveStat(b, base, eq, "int")
        sta == EffectiveStat(b, base, eq, "sta")
        rawCrit == agi * CritPerAgi(b)
    IN  [str |-> str, agi |-> agi, int |-> int, sta |-> sta,
         maxHp |-> sta * 100,
         maxMana |-> int * 100,
         ap |-> str * 2,
         crit |-> IF rawCrit > 1000 THEN 1000 ELSE rawCrit,
         critDmg |-> IF rawCrit > 1000 THEN 200 + ((rawCrit - 1000) \div 10) ELSE 200]

\* IdleWowCore.getSkillDamage, in 1/100: baseMult (tenths) * (1 + (rank-1) * 0.1)
getSkillDamage(rank, baseMult) ==
    IF rank <= 0 THEN baseMult * 10 ELSE baseMult * (10 + (rank - 1))

StatOrder == <<"str", "agi", "int", "sta">>
SlotOrder == <<"weapon", "head", "chest", "legs">>
QualityTable == <<"common", "common", "common", "rare", "rare", "epic">>

\* the stat mappings explored for `budget` points, each landing on a picked
\* stat: the first k points on s1, the others on s2
StatRolls(budget) ==
    {[s \in StatTypes |-> (IF s = s1 THEN k ELSE 0) + (IF s = s2 THEN budget - k ELSE 0)] :
        <<s1, s2, k>> \in StatTypes \X StatTypes \X Rolls(budget + 1)}

\* IdleWowUtil.redistributeItemStats (punitive build): int moved point by point
\* onto str/agi/sta
redistributeItemStats(item) ==
    IF item.stats.int <= 0 THEN {item}
    ELSE {[item EXCEPT !.stats =
              [s \in StatTypes |->
                  IF s = "int" THEN 0
                  ELSE item.stats[s] + (IF s = s1 THEN k ELSE 0)
                                     + (IF s = s2 THEN item.stats.int - k ELSE 0)]] :
            <<s1, s2, k>> \in (StatTypes \ {"int"}) \X (StatTypes \ {"int"})
                              \X Rolls(item.stats.int + 1)}

\* the quality rolled when none is forced: qualities[floor(r * (r' > 0.9 ? 6 : 3))]
QualityRolls ==
    {QualityTable[i + 1] : i \in Rolls(3)} \cup {QualityTable[i + 1] : i \in Rolls(6)}

LootBudget(targetLevel, quality) ==
    LET multiplier == IF quality = "epic" THEN 3 ELSE IF quality = "rare" THEN 2 ELSE 1
    IN  Max(1, ((targetLevel * 3 * multiplier) + 1) \div 2)

\* the item built for one outcome of the rolls; score 0 until it is scored
LootItem(targetLevel, quality, slot, stats) ==
    [slot |-> slot, quality |-> quality, stats |-> stats,
     value |-> LootBudget(targetLevel, quality) * 10,
     reqLevel |-> targetLevel, score |-> 0]

\* IdleWowCore.generateLoot: every result the rolls explored can give; NoItem is
\* the null of the 70% no-drop gate.  forced = "" when no quality is forced.
\* The punitive build redistributes a god-mode item before scoring it.
generateLoot(b, targetLevel, forced, godMode) ==
    LET quals == IF forced # "" THEN {forced} ELSE QualityRolls
        items == UNION {
                   {LootItem(targetLevel, q, SlotOrder[si + 1], st) :
                        <<si, st>> \in Rolls(4) \X StatRolls(LootBudget(targetLevel, q))} :
                   q \in quals}
        final == IF b = "punitive" /\ godMode
                 THEN UNION {redistributeItemStats(it) : it \in items}
                 ELSE items
    IN  {[it EXCEPT !.score = calculateItemScore(it)] : it \in final}
            \cup (IF forced = "" THEN {NoItem} ELSE {})

(***************************************************************************)
(* IdleWowUtil: persistence.  A stored record is what JSON.parse gives back *)
(* for the string written: an object whose keys are the ones present.      *)
(***************************************************************************)
\* JSON.stringify drops the keys whose value is undefined
ToJson(obj) ==
    LET keep == {k \in DOMAIN obj : ~(k = "modelOverride" /\ obj[k] = Undefined)}
    IN  [k \in keep |-> obj[k]]

\* JSON.stringify({...state, timestamp: Date.now()})
Serialize(state, t) ==
    LET whole == Spread(state, [timestamp |-> t])
    IN  IF "player" \in DOMAIN whole
        THEN [whole EXCEPT !.player = ToJson(whole.player)]
        ELSE whole

\* IdleWowUtil.saveToSlot: the storage after the write
saveToSlot(store, index, state, t) ==
    [store EXCEPT ![index] = Serialize(state, t)]

\* `if (m[key] === undefined) m[key] = value`
BackFill(m, key, value) ==
    IF key \in DOMAIN m THEN m ELSE Spread(m, key :> value)

ZoneIndexOf(id) ==
    IF \E z \in ZoneIdx : ZONES[z].id = id
    THEN CHOOSE z \in ZoneIdx : ZONES[z].id = id
    ELSE 0

\* the back-filled fields of the punitive build
BackFillReincarnation(m) ==
    BackFill(BackFill(BackFill(BackFill(BackFill(m,
        "reincarnationUnlocked", FALSE),
        "reincarnationPower", 0),
        "sixPathsPower", 0),
        "furyEnabled", FALSE),
        "passiveArts", << >>)

\* MigratePlayer with the spread the other way round: {...parsed.player, ...defaultPlayer}
MigratePlayerDefaultsWin(b, parsed) ==
    LET persisted == IF "player" \in DOMAIN parsed THEN parsed.player ELSE << >>
        username == IF "username" \in DOMAIN persisted /\ persisted.username # ""
                    THEN persisted.username ELSE "Recovery"
    IN  Spread(persisted, getBaseStats(b, 1, username))

\* MigratePlayer without the default character under the persisted fields
MigratePlayerNoDefault(b, parsed) ==
    LET persisted == IF "player" \in DOMAIN parsed THEN parsed.player ELSE << >>
        m1 == BackFill(persisted, "class", "novice")
        m2 == BackFill(m1, "skillPoints", Max(0, m1.level - 9))
    IN  BackFill(m2, "mobsKilled", IF m2.level > 1 THEN 10 ELSE 0)

\* the player of IdleWowUtil.loadSlot: the default character of level 1 with
\* the persisted fields spread over it, then the "ensure new fields" lines
MigratePlayer(b, parsed) ==
    LET persisted == IF "player" \in DOMAIN parsed THEN parsed.player ELSE << >>
        username == IF "username" \in DOMAIN persisted /\ persisted.username # ""
                    THEN persisted.username ELSE "Recovery"
        defaultPlayer == getBaseStats(b, 1, username)
        merged == Spread(defaultPlayer, persisted)
        m1 == IF "class" \notin DOMAIN merged \/ merged.class = ""
              THEN Spread(merged, [class |-> "novice"]) ELSE merged
        m2 == BackFill(m1, "skillPoints", Max(0, m1.level - 9))
        m3 == BackFill(m2, "attributePoints", 0)
        m4 == BackFill(m3, "autoAllocMode", "manual")
        m5 == BackFill(m4, "skills", << >>)
        m6 == BackFill(m5, "mana", 0)
        m7 == BackFill(m6, "rage", 0)
        m8 == BackFill(m7, "gameSpeed", 1)
        m9 == IF b = "punitive" THEN BackFillReincarnation(m8) ELSE m8
    IN  BackFill(m9, "mobsKilled", IF m9.level > 1 THEN 10 ELSE 0)

\* slot contents that are no record: a string JSON.parse rejects, the JSON
\* text "null", and the JSON text "{}"
Unparseable == [unparseable |-> TRUE]
JsonNull == [null |-> TRUE]
EmptyObject == [k \in {} |-> TRUE]

\* IdleWowUtil.loadSlot: NoSave is the null returned for an empty slot, and
\* the null of the catch block (JSON.parse throws on an unparseable string,
\* parsed.player throws on null)
loadSlot(b, store, index) ==
    LET parsed == store[index]
    IN  IF parsed = NoSave THEN NoSave
        ELSE IF parsed = Unparseable \/ parsed = JsonNull THEN NoSave
        ELSE Spread(parsed,
               [player    |-> MigratePlayer(b, parsed),
                equipment |-> IF "equipment" \in DOMAIN parsed THEN parsed.equipment
                              ELSE EmptyEquipment,
                inventory |-> IF "inventory" \in DOMAIN parsed THEN parsed.inventory
                              ELSE << >>,
                zoneId    |-> IF "zoneId" \in DOMAIN parsed /\ parsed.zoneId # ""
                              THEN parsed.zoneId ELSE "elwynn"])

(***************************************************************************)
(* The combat loop (the setInterval callback of App).  The callback reads  *)
(* `player`, `derivedStats`, `combat`, `equipment`, `zone` of the render   *)
(* that installed it (P, D, C below); the functional updaters it queues    *)
(* are applied in order to the latest player state (p).                    *)
(***************************************************************************)
\* IdleWowUtil.randInt on whole numbers
RandIntWhole(lo, hi) == {lo + k : k \in Rolls(hi - lo + 1)}

\* passive regeneration: the first setPlayer of the tick
Regen(p, D, C) ==
    LET newMana == IF p.class = "mage" /\ p.mana < D.maxMana
                   THEN Min(D.maxMana, p.mana + D.int) ELSE p.mana
        newRage == IF p.class = "warrior" /\ C = NoMob /\ p.rage > 0
                   THEN Max(0, p.rage - 2) ELSE p.rage
        newHp   == Min(D.maxHp, p.hp + (D.sta * 2))
    IN  [p EXCEPT !.mana = newMana, !.rage = newRage, !.hp = newHp]

\* Spawn without the protection of new characters
SpawnFromZone(P, z, C) ==
    IF C # NoMob THEN {C}
    ELSE {LET template == generateZoneMobs(z, i)
              hpMult == IF template.isBoss THEN 3 ELSE 1
          IN  [template |-> template, hp |-> template.baseHp * hpMult * MobUnit,
               maxHp |-> template.baseHp * hpMult * MobUnit, slowed |-> FALSE] :
          i \in Rolls(MobCount)}

\* the encounter the tick works on: the live one, or a spawned one
Spawn(P, z, C) ==
    IF C # NoMob THEN {C}
    ELSE IF P.mobsKilled < TutorialKills
    THEN {[template |-> TutorialMob(P.mobsKilled),
           hp |-> TutorialMob(P.mobsKilled).baseHp * MobUnit,
           maxHp |-> TutorialMob(P.mobsKilled).baseHp * MobUnit,
           slowed |-> FALSE]}
    ELSE {LET template == generateZoneMobs(z, i)
              hpMult == IF template.isBoss THEN 3 ELSE 1
          IN  [template |-> template, hp |-> template.baseHp * hpMult * MobUnit,
               maxHp |-> template.baseHp * hpMult * MobUnit, slowed |-> FALSE] :
          i \in Rolls(MobCount)}

\* mana cost of a skill in tenths: maxMana * (cost / 100)
ManaCost(D, skill) == (D.maxMana * skill.cost) \div 100

\* CanCast without the rule of the execute skill
CanCastAnyHp(P, D, mob, skill) ==
    \/ (skill.costType = "rage" /\ P.rage >= skill.cost)
    \/ (skill.costType = "mana" /\ P.mana >= ManaCost(D, skill))

\* the canCast flag of the skill scan
CanCast(P, D, mob, skill) ==
    /\ \/ (skill.costType = "rage" /\ P.rage >= skill.cost)
       \/ (skill.costType = "mana" /\ P.mana >= ManaCost(D, skill))
    /\ ~(skill.id = "execute" /\ mob.hp * 5 > mob.maxHp)

\* the skill scan: 0 (no proc) or the index of the learned skill that procs;
\* a skill can be the first to pass its 30% roll only if it can be cast
ProcChoices(P, D, mob) ==
    {0} \cup {i \in 1..Len(P.skills) : CanCast(P, D, mob, SKILL_DB[P.skills[i].id])}

\* the setPlayer queued by a proc: the cost is taken from the latest state
PaySkill(p, D, skill) ==
    IF skill.costType = "rage" THEN [p EXCEPT !.rage = p.rage - skill.cost]
    ELSE [p EXCEPT !.mana = p.mana - ManaCost(D, skill)]

\* PlayerTurn with an attack that does no damage
PlayerTurnMisses(P, D, p, mob, roll, isCrit, proc) ==
    LET skill == IF proc = 0 THEN SKILL_DB.heroic_strike ELSE SKILL_DB[P.skills[proc].id]
        paid  == IF proc = 0 THEN p ELSE PaySkill(p, D, skill)
        raged == IF P.class = "warrior"
                 THEN [paid EXCEPT !.rage = Min(MaxRage, paid.rage + 5)] ELSE paid
    IN  [p |-> raged,
         mob |-> [mob EXCEPT !.slowed = mob.slowed \/ (proc # 0 /\ skill.id = "frostbolt")],
         skill |-> IF proc = 0 THEN "none" ELSE skill.id,
         playerActed |-> TRUE, mobActed |-> FALSE, dodged |-> FALSE]

\* PlayerTurn with the damage added to the monster's hp
PlayerTurnHeals(P, D, p, mob, roll, isCrit, proc) ==
    LET base  == roll \div 10
        skill == IF proc = 0 THEN SKILL_DB.heroic_strike ELSE SKILL_DB[P.skills[proc].id]
        rank  == IF proc = 0 \/ P.skills[proc].rank = 0 THEN 1 ELSE P.skills[proc].rank
        mult  == IF proc = 0 THEN 100 ELSE getSkillDamage(rank, skill.dmgMult)
        dmg   == base * mult * (IF isCrit THEN D.critDmg ELSE 100)
        paid  == IF proc = 0 THEN p ELSE PaySkill(p, D, skill)
        raged == IF P.class = "warrior"
                 THEN [paid EXCEPT !.rage = Min(MaxRage, paid.rage + 5)] ELSE paid
    IN  [p |-> raged,
         mob |-> [mob EXCEPT !.hp = mob.hp + dmg,
                             !.slowed = mob.slowed \/ (proc # 0 /\ skill.id = "frostbolt")],
         skill |-> IF proc = 0 THEN "none" ELSE skill.id,
         playerActed |-> TRUE, mobActed |-> FALSE, dodged |-> FALSE]

\* PLAYER TURN for one outcome of the rolls (roll in tenths, crit, proc)
PlayerTurn(P, D, p, mob, roll, isCrit, proc) ==
    LET base  == roll \div 10
        skill == IF proc = 0 THEN SKILL_DB.heroic_strike ELSE SKILL_DB[P.skills[proc].id]
        rank  == IF proc = 0 \/ P.skills[proc].rank = 0 THEN 1 ELSE P.skills[proc].rank
        mult  == IF proc = 0 THEN 100 ELSE getSkillDamage(rank, skill.dmgMult)
        dmg   == base * mult * (IF isCrit THEN D.critDmg ELSE 100)
        paid  == IF proc = 0 THEN p ELSE PaySkill(p, D, skill)
        raged == IF P.class = "warrior"
                 THEN [paid EXCEPT !.rage = Min(MaxRage, paid.rage + 5)] ELSE paid
    IN  [p |-> raged,
         mob |-> [mob EXCEPT !.hp = mob.hp - dmg,
                             !.slowed = mob.slowed \/ (proc # 0 /\ skill.id = "frostbolt")],
         skill |-> IF proc = 0 THEN "none" ELSE skill.id,
         playerActed |-> TRUE, mobActed |-> FALSE, dodged |-> FALSE]

\* TakeHit with the rage gain left uncapped
TakeHitUncapped(p, mDmg) ==
    [p EXCEPT !.hp = Max(0, p.hp - mDmg),
              !.rage = IF p.class = "warrior" THEN p.rage + 2 ELSE p.rage]

\* the setPlayer of a monster hit
TakeHit(p, mDmg) ==
    [p EXCEPT !.hp = Max(0, p.hp - mDmg),
              !.rage = IF p.class = "warrior" THEN Min(MaxRage, p.rage + 2) ELSE p.rage]

\* MobTurn without the test that the monster is still alive
MobTurnAfterDeath(D, t) ==
    (IF t.mob.slowed THEN {t} ELSE {})
    \cup {IF dodge THEN [t EXCEPT !.dodged = TRUE]
          ELSE [t EXCEPT !.p = TakeHit(t.p, mDmg), !.mobActed = TRUE] :
          <<mDmg, dodge>> \in RandInt(t.mob.template.minDmg, t.mob.template.maxDmg)
                              \X Chance(D.agi)}

\* MOB TURN after the player's: every outcome of the monster's rolls
MobTurn(D, t) ==
    IF t.mob.hp <= 0 THEN {t}
    ELSE (IF t.mob.slowed THEN {t} ELSE {})
         \cup {IF dodge THEN [t EXCEPT !.dodged = TRUE]
               ELSE [t EXCEPT !.p = TakeHit(t.p, mDmg), !.mobActed = TRUE] :
               <<mDmg, dodge>> \in RandInt(t.mob.template.minDmg, t.mob.template.maxDmg)
                                   \X Chance(D.agi)}

\* the exchange of one tick: nothing happens unless both are alive
Exchange(P, D, p, mob) ==
    IF P.hp > 0 /\ mob.hp > 0
    THEN UNION {MobTurn(D, PlayerTurn(P, D, p, mob, roll, isCrit, proc)) :
                <<roll, isCrit, proc>> \in RandInt((D.ap * 10) \div 4, (D.ap * 10) \div 2)
                                           \X Chance(D.crit) \X ProcChoices(P, D, mob)}
    ELSE {[p |-> p, mob |-> mob, skill |-> "none", playerActed |-> FALSE,
           mobActed |-> FALSE, dodged |-> FALSE]}

\* AutoAllocTarget with the parities of the two-attribute modes exchanged
AutoAllocTargetSwapped(mode, newLvl) ==
    CASE mode = "str" -> "str"
      [] mode = "agi" -> "agi"
      [] mode = "int" -> "int"
      [] mode = "sta" -> "sta"
      [] mode = "str_agi" -> (IF newLvl % 2 = 0 THEN "agi" ELSE "str")
      [] mode = "int_sta" -> (IF newLvl % 2 = 0 THEN "sta" ELSE "int")
      [] OTHER -> "none"

\* the attribute an auto-allocation mode raises at a level-up to newLvl
AutoAllocTarget(mode, newLvl) ==
    CASE mode = "str" -> "str"
      [] mode = "agi" -> "agi"
      [] mode = "int" -> "int"
      [] mode = "sta" -> "sta"
      [] mode = "str_agi" -> (IF newLvl % 2 = 0 THEN "str" ELSE "agi")
      [] mode = "int_sta" -> (IF newLvl % 2 = 0 THEN "int" ELSE "sta")
      [] OTHER -> "none"

\* KillUpdate with the experience reset to zero at a level-up (no carry-over)
KillUpdateNoCarry(p, D, xpGain, goldGain) ==
    IF p.xp + xpGain >= p.maxXp
    THEN [p EXCEPT !.xp = 0, !.level = p.level + 1, !.maxXp = (p.level + 1) * 100,
                   !.gold = p.gold + goldGain, !.hp = D.maxHp,
                   !.mobsKilled = p.mobsKilled + 1]
    ELSE [p EXCEPT !.xp = p.xp + xpGain, !.gold = p.gold + goldGain,
                   !.mobsKilled = p.mobsKilled + 1]

\* KillUpdate with the kill counter left alone
KillUpdateUncounted(p, D, xpGain, goldGain) ==
    LET newXp  == p.xp + xpGain
        killed == p.mobsKilled
        newLvl == p.level + 1
        target == AutoAllocTarget(p.autoAllocMode, newLvl)
        bump(s) == IF target = s THEN p[s] + 1 ELSE p[s]
    IN  IF newXp >= p.maxXp
        THEN [p EXCEPT !.xp = newXp - p.maxXp,
                       !.level = newLvl,
                       !.maxXp = newLvl * 100,
                       !.gold = p.gold + goldGain,
                       !.hp = D.maxHp,
                       !.skillPoints = IF newLvl >= SkillUnlockLevel
                                       THEN p.skillPoints + 1 ELSE p.skillPoints,
                       !.attributePoints = IF p.autoAllocMode = "manual"
                                           THEN p.attributePoints + 1
                                           ELSE p.attributePoints,
                       !.str = bump("str"), !.agi = bump("agi"),
                       !.int = bump("int"), !.sta = bump("sta"),
                       !.mobsKilled = killed]
        ELSE [p EXCEPT !.xp = newXp, !.gold = p.gold + goldGain, !.mobsKilled = killed]

\* the setPlayer of the kill branch: rewards and, at the threshold, the level-up
KillUpdate(p, D, xpGain, goldGain) ==
    LET newXp  == p.xp + xpGain
        killed == p.mobsKilled + 1
        newLvl == p.level + 1
        target == AutoAllocTarget(p.autoAllocMode, newLvl)
        bump(s) == IF target = s THEN p[s] + 1 ELSE p[s]
    IN  IF newXp >= p.maxXp
        THEN [p EXCEPT !.xp = newXp - p.maxXp,
                       !.level = newLvl,
                       !.maxXp = newLvl * 100,
                       !.gold = p.gold + goldGain,
                       !.hp = D.maxHp,
                       !.skillPoints = IF newLvl >= SkillUnlockLevel
                                       THEN p.skillPoints + 1 ELSE p.skillPoints,
                       !.attributePoints = IF p.autoAllocMode = "manual"
                                           THEN p.attributePoints + 1
                                           ELSE p.attributePoints,
                       !.str = bump("str"), !.agi = bump("agi"),
                       !.int = bump("int"), !.sta = bump("sta"),
                       !.mobsKilled = killed]
        ELSE [p EXCEPT !.xp = newXp, !.gold = p.gold + goldGain, !.mobsKilled = killed]

\* inventory capacity: INVENTORY_CAP in src/index.tsx, the literal 20 in part_000
InventoryCap(b) == IF b = "lenient" THEN INVENTORY_CAP ELSE InventoryCapPunitive

\* Dispose without the god option and without the capacity test
DisposeAlwaysStores(b, P, E, inv, p, loot) ==
    IF loot = NoItem
    THEN [p |-> p, equipment |-> E, inventory |-> inv, loot |-> "none", logs |-> << >>]
    ELSE [p |-> p, equipment |-> E, inventory |-> Append(inv, loot),
          loot |-> "stored", logs |-> <<"pickup">>]

\* Dispose with the god option putting on a drop that only ties the item worn
DisposeEquipsTies(b, P, E, inv, p, loot) ==
    IF loot = NoItem
    THEN [p |-> p, equipment |-> E, inventory |-> inv, loot |-> "none", logs |-> << >>]
    ELSE IF P.godModeAutoEquip
    THEN LET currentEquip == E[loot.slot]
             currentScore == IF currentEquip # NoItem
                             THEN calculateItemScore(currentEquip) ELSE -1
         IN  IF loot.score >= currentScore
             THEN [p |-> IF currentEquip # NoItem
                         THEN [p EXCEPT !.gold = p.gold + currentEquip.value] ELSE p,
                   equipment |-> [E EXCEPT ![loot.slot] = loot],
                   inventory |-> inv, loot |-> "equipped", logs |-> <<"auto_equip">>]
             ELSE [p |-> [p EXCEPT !.gold = p.gold + loot.value],
                   equipment |-> E, inventory |-> inv,
                   loot |-> "salvaged", logs |-> <<"auto_salvage">>]
    ELSE IF Len(inv) < InventoryCap(b)
    THEN [p |-> p, equipment |-> E, inventory |-> Append(inv, loot),
          loot |-> "stored", logs |-> <<"pickup">>]
    ELSE [p |-> p, equipment |-> E, inventory |-> inv,
          loot |-> "lost", logs |-> <<"pickup", "bag_full">>]

\* what happens to a generated item (a drop of the combat loop or a mystery
\* purchase): auto-equip / auto-salvage when the god option is on, the bag
\* otherwise.  The "bag full" entry is added inside the setInventory updater.
Dispose(b, P, E, inv, p, loot) ==
    IF loot = NoItem
    THEN [p |-> p, equipment |-> E, inventory |-> inv, loot |-> "none", logs |-> << >>]
    ELSE IF P.godModeAutoEquip
    THEN LET currentEquip == E[loot.slot]
             currentScore == IF currentEquip # NoItem
                             THEN calculateItemScore(currentEquip) ELSE -1
         IN  IF loot.score > currentScore
             THEN [p |-> IF currentEquip # NoItem
                         THEN [p EXCEPT !.gold = p.gold + currentEquip.value] ELSE p,
                   equipment |-> [E EXCEPT ![loot.slot] = loot],
                   inventory |-> inv, loot |-> "equipped", logs |-> <<"auto_equip">>]
             ELSE [p |-> [p EXCEPT !.gold = p.gold + loot.value],
                   equipment |-> E, inventory |-> inv,
                   loot |-> "salvaged", logs |-> <<"auto_salvage">>]
    ELSE IF Len(inv) < InventoryCap(b)
    THEN [p |-> p, equipment |-> E, inventory |-> Append(inv, loot),
          loot |-> "stored", logs |-> <<"pickup">>]
    ELSE [p |-> p, equipment |-> E, inventory |-> inv,
          loot |-> "lost", logs |-> <<"pickup", "bag_full">>]

\* the kill branch: every outcome of the gold and loot rolls
KillBranch(b, P, D, E, inv, t) ==
    LET template == t.mob.template
        xpGain   == template.xpGiven * (IF template.isBoss THEN 2 ELSE 1)
        furyOff  == b = "punitive" /\ P.furyEnabled
        p1       == IF furyOff THEN [t.p EXCEPT !.furyEnabled = FALSE] ELSE t.p
        levelLog == IF P.xp + xpGain >= P.maxXp THEN <<"level_up">> ELSE << >>
        allocLog == IF t.p.xp + xpGain >= t.p.maxXp /\ t.p.autoAllocMode # "manual"
                    THEN <<"auto_alloc">> ELSE << >>
    IN  {LET goldGain == r * template.level * (IF template.isBoss THEN 5 ELSE 1)
             p2 == KillUpdate(p1, D, xpGain, goldGain)
             d  == Dispose(b, P, E, inv, p2, loot)
         IN  [player |-> d.p, equipment |-> d.equipment, inventory |-> d.inventory,
              combat |-> NoMob, zoneBack |-> FALSE, unlock |-> FALSE,
              kill |-> TRUE, defeat |-> FALSE, xpGain |-> xpGain, goldGain |-> goldGain,
              levelUp |-> (p2.level > p1.level), loot |-> d.loot, item |-> loot,
              logs |-> <<"death">> \o (IF furyOff THEN <<"fury_end">> ELSE << >>)
                         \o levelLog \o d.logs \o allocLog] :
         <<r, loot>> \in RandIntWhole(1, 5)
                         \X generateLoot(b, template.level,
                                         IF template.isBoss THEN "rare" ELSE "",
                                         P.godModeEnabled)}

\* the attribute the punitive defeat takes a point from: the first of the
\* highest in the order str, agi, int, sta (Array.sort is stable)
HighestStat(p) ==
    LET best == CHOOSE v \in {p[s] : s \in StatTypes} : \A s \in StatTypes : p[s] <= v
    IN  StatOrder[CHOOSE i \in 1..4 : p[StatOrder[i]] = best
                                       /\ \A j \in 1..(i - 1) : p[StatOrder[j]] # best]

\* DefeatUpdate with the loss of a level in both builds
DefeatUpdateLosesLevel(b, p, D) ==
    IF b = "lenient"
    THEN [p EXCEPT !.hp = D.maxHp, !.level = Max(1, p.level - 1),
                   !.maxXp = Max(1, p.level - 1) * 100]
    ELSE LET newLvl == Max(1, p.level - 1)
             revoke == p.level > 1 /\ p.attributePoints = 0
             target == IF revoke THEN HighestStat(p) ELSE "none"
             cut(s) == IF target = s THEN Max(MinAttribute, p[s] - 1) ELSE p[s]
         IN  [p EXCEPT !.level = newLvl,
                       !.maxXp = newLvl * 100,
                       !.hp = D.maxHp,
                       !.attributePoints = IF p.level > 1 /\ p.attributePoints > 0
                                           THEN p.attributePoints - 1
                                           ELSE p.attributePoints,
                       !.str = cut("str"), !.agi = cut("agi"),
                       !.int = cut("int"), !.sta = cut("sta"),
                       !.reincarnationUnlocked = TRUE,
                       !.reincarnationPower = p.reincarnationPower + 1,
                       !.furyEnabled = FALSE]

\* the setPlayer of the defeat branch
DefeatUpdate(b, p, D) ==
    IF b = "lenient" THEN [p EXCEPT !.hp = D.maxHp]
    ELSE LET newLvl == Max(1, p.level - 1)
             revoke == p.level > 1 /\ p.attributePoints = 0
             target == IF revoke THEN HighestStat(p) ELSE "none"
             cut(s) == IF target = s THEN Max(MinAttribute, p[s] - 1) ELSE p[s]
         IN  [p EXCEPT !.level = newLvl,
                       !.maxXp = newLvl * 100,
                       !.hp = D.maxHp,
                       !.attributePoints = IF p.level > 1 /\ p.attributePoints > 0
                                           THEN p.attributePoints - 1
                                           ELSE p.attributePoints,
                       !.str = cut("str"), !.agi = cut("agi"),
                       !.int = cut("int"), !.sta = cut("sta"),
                       !.reincarnationUnlocked = TRUE,
                       !.reincarnationPower = p.reincarnationPower + 1,
                       !.furyEnabled = FALSE]

\* the defeat branch
DefeatBranch(b, P, D, E, inv, z, t) ==
    [player |-> DefeatUpdate(b, t.p, D), equipment |-> E, inventory |-> inv,
     combat |-> NoMob,
     zoneBack |-> (b = "punitive" /\ z > 1),
     unlock |-> (b = "punitive" /\ ~t.p.reincarnationUnlocked),
     kill |-> FALSE, defeat |-> TRUE, xpGain |-> 0, goldGain |-> 0, levelUp |-> FALSE,
     loot |-> "none", item |-> NoItem, logs |-> <<"defeat">>]

\* terminal conditions of the tick, in the order of the code
Terminal(b, P, D, E, inv, z, t) ==
    IF t.mob.hp <= 0 THEN KillBranch(b, P, D, E, inv, t)
    ELSE IF P.hp <= 0 THEN {DefeatBranch(b, P, D, E, inv, z, t)}
    ELSE {[player |-> t.p, equipment |-> E, inventory |-> inv, combat |-> t.mob,
           zoneBack |-> FALSE, unlock |-> FALSE,
           kill |-> FALSE, defeat |-> FALSE, xpGain |-> 0, goldGain |-> 0,
           levelUp |-> FALSE, loot |-> "none", item |-> NoItem, logs |-> << >>]}

\* the log entries of the exchange
ExchangeLogs(t) ==
    (IF t.skill = "frostbolt" THEN <<"slow">> ELSE << >>)
    \o (IF t.playerActed THEN <<"attack">> ELSE << >>)
    \o (IF t.dodged THEN <<"dodge">> ELSE << >>)
    \o (IF t.mobActed THEN <<"hit">> ELSE << >>)

NoEv ==
    [op |-> "init", spawned |-> FALSE, playerActed |-> FALSE, mobActed |-> FALSE,
     skill |-> "none", template |-> NoMob, mobDown |-> FALSE, kill |-> FALSE, defeat |-> FALSE,
     levelUp |-> FALSE, loot |-> "none", item |-> NoItem, xpGain |-> 0, goldGain |-> 0,
     ok |-> TRUE, arg |-> 0,
     ts |-> 0, n |-> 0]

\* the generated item a handler run records: the one generated under a god
\* option (god mode, auto-equip), NoItem otherwise
GodItem(P, loot) == IF P.godModeEnabled \/ P.godModeAutoEquip THEN loot ELSE NoItem

\* the record of a handler run: the n-th since the application started
Ev(op, ok) == [NoEv EXCEPT !.op = op, !.ok = ok, !.n = ev.n + 1]

\* the dependency list of the autosave effect
Deps == <<appMode, currentSlot, player, equipment, inventory, zone>>

\* no autosave interval is installed outside game mode
NoTimer == [armed |-> 0, base |-> 0]

\* the autosave effect after a handler: it installs the interval when game mode
\* is entered, and clears and installs it again whenever the render that
\* follows the handler carries a new value in its dependency list
Rearm(renewed) ==
    saveTimer' = IF appMode' # "game" THEN NoTimer
                 ELSE IF appMode # "game" THEN [armed |-> now', base |-> now']
                 ELSE IF renewed THEN [saveTimer EXCEPT !.armed = now']
                 ELSE saveTimer

\* the delay of the combat loop's interval: 1000 / (player.gameSpeed || 1)
tickRate(P) == TickPeriod \div (IF P.gameSpeed = 0 THEN 1 ELSE P.gameSpeed)

\* kills since the character was loaded or created (bounds the exploration)
KillsSinceLoad ==
    player.mobsKilled
      - (IF storage[currentSlot] = NoSave THEN 0
         ELSE MigratePlayer(build, storage[currentSlot]).mobsKilled)

\* the exploration goes on while the handler count is below its bound
Going == ev.n < MaxSteps

\* the first encounter of a loaded game is fought while the handler count is
\* below its bound and no tick has resolved a kill or a defeat
Fighting == ev.n < MaxFightSteps /\ ~(ev.kill \/ ev.defeat)

\* a new character's first fights go on while the handler count is below its
\* bound and the kill counter is below the end of the tutorial
Learning == ev.n < MaxTutorialSteps /\ player.mobsKilled < TutorialKills

\* one tick of the combat loop
CombatTick ==
    /\ appMode = "game"
    /\ ~modal.welcome
    /\ LET P == player
           D == calculateCombatStats(build, player, equipment)
           p == Regen(player, D, combat)
       IN  \E mob \in Spawn(P, zone, combat) :
           \E t \in Exchange(P, D, p, mob) :
           \E o \in Terminal(build, P, D, equipment, inventory, zone, t) :
              /\ player' = o.player
              /\ equipment' = o.equipment
              /\ inventory' = o.inventory
              /\ combat' = o.combat
              /\ zone' = IF o.zoneBack THEN zone - 1 ELSE zone
              /\ modal' = IF o.unlock THEN [modal EXCEPT !.reincarnation = TRUE] ELSE modal
              /\ ev' = [Ev("tick", TRUE) EXCEPT !.spawned = (combat = NoMob),
                                    !.playerActed = t.playerActed,
                                    !.mobActed = t.mobActed, !.skill = t.skill,
                                    !.template = IF combat = NoMob THEN mob.template ELSE NoMob,
                                    !.mobDown = (t.mob.hp <= 0),
                                    !.kill = o.kill, !.defeat = o.defeat,
                                    !.levelUp = o.levelUp, !.loot = o.loot,
                                    !.item = GodItem(P, o.item), !.xpGain = o.xpGain,
                                    !.goldGain = o.goldGain]
              /\ logs' = ExchangeLogs(t) \o o.logs
              /\ now' = now + tickRate(P)
              /\ UNCHANGED <<build, appMode, currentSlot, tempAlloc, storage>>
              \* a setPlayer updater that returns a new object renews the
              \* dependency list even when the values are the same
              /\ Rearm(Deps' # Deps \/ (P.class = "warrior" /\ t.playerActed)
                       \/ t.mobActed \/ o.kill \/ o.defeat)

\* the ticks explored: within the handler count, up to the bound on kills
Tick == Going /\ KillsSinceLoad < MaxKills /\ CombatTick

(***************************************************************************)
(* UI handlers.  An overlay modal covers the game screen, so the handlers  *)
(* of the game screen need every modal closed.                             *)
(***************************************************************************)
Names == {"hero"}
ModelNames == <<"player", "dragon", "mech", "beast", "humanoid">>
AutoAllocModes == {"manual", "str", "agi", "int", "sta", "str_agi", "int_sta"}
NoAlloc == [s \in StatTypes |-> 0]
NoModal == [welcome |-> FALSE, god |-> FALSE, class |-> FALSE, reincarnation |-> FALSE]

InGame == appMode = "game"
Screen == InGame /\ modal = NoModal
isGod == player.username = "cnm"
tempPointsSpent == tempAlloc.str + tempAlloc.agi + tempAlloc.int + tempAlloc.sta
pointsAvailable == player.attributePoints - tempPointsSpent

\* Snapshot with the equipment of a render left behind: the one the slot was
\* loaded with
SnapshotTorn ==
    [player |-> player,
     equipment |-> IF "equipment" \in DOMAIN storage[currentSlot]
                   THEN storage[currentSlot].equipment ELSE EmptyEquipment,
     inventory |-> inventory, zoneId |-> ZONES[zone].id]

\* the record the save calls pass to saveToSlot
Snapshot == [player |-> player, equipment |-> equipment, inventory |-> inventory,
             zoneId |-> ZONES[zone].id]

\* slot card onClick: load the slot, or go to character creation
SelectSlot(i) ==
    /\ Going
    /\ appMode = "slot-select"
    /\ currentSlot' = i
    /\ LET saved == loadSlot(build, storage, i)
       IN  IF saved # NoSave
           THEN /\ player' = saved.player
                /\ equipment' = saved.equipment
                /\ inventory' = saved.inventory
                /\ zone' = IF ZoneIndexOf(saved.zoneId) # 0
                           THEN ZoneIndexOf(saved.zoneId) ELSE zone
                /\ appMode' = "game"
                /\ ev' = Ev("load", TRUE)
           ELSE /\ appMode' = "create-char"
                /\ ev' = Ev("load", FALSE)
                /\ UNCHANGED <<player, equipment, inventory, zone>>
    /\ logs' = << >>
    /\ UNCHANGED <<build, combat, tempAlloc, modal, storage, now>>
    /\ Rearm(Deps' # Deps)

\* "start adventure" onClick of the creation screen
CreateChar(name) ==
    /\ Going
    /\ appMode = "create-char"
    /\ LET newPlayer == getBaseStats(build, 1, name)
       IN  /\ player' = newPlayer
           /\ storage' = saveToSlot(storage, currentSlot,
                            [player |-> newPlayer, equipment |-> EmptyEquipment,
                             inventory |-> << >>, zoneId |-> ZONES[1].id], now)
    /\ modal' = [modal EXCEPT !.welcome = TRUE]
    /\ appMode' = "game"
    /\ ev' = Ev("create", TRUE)
    /\ logs' = << >>
    /\ UNCHANGED <<build, currentSlot, equipment, inventory, zone, combat, tempAlloc, now>>
    /\ Rearm(Deps' # Deps)

\* "back" onClick of the creation screen
BackToSlots ==
    /\ Going
    /\ appMode = "create-char"
    /\ appMode' = "slot-select"
    /\ ev' = Ev("back", TRUE)
    /\ logs' = << >>
    /\ UNCHANGED <<build, currentSlot, player, equipment, inventory, zone, combat,
                   tempAlloc, modal, storage, now>>
    /\ Rearm(Deps' # Deps)

\* closing one of the modals (welcome, god, class, reincarnation)
CloseModal(m) ==
    /\ Going
    /\ InGame
    /\ modal[m]
    /\ m = "reincarnation" => build = "punitive"
    /\ modal' = [modal EXCEPT ![m] = FALSE]
    /\ ev' = Ev("close_modal", TRUE)
    /\ logs' = << >>
    /\ UNCHANGED <<build, appMode, currentSlot, player, equipment, inventory, zone,
                   combat, tempAlloc, storage, now>>
    /\ Rearm(Deps' # Deps)

\* the class-change and god-settings buttons of the character tab
OpenModal(m) ==
    /\ Going
    /\ Screen
    /\ \/ m = "class" /\ player.level >= 10 /\ player.class = "novice"
       \/ m = "god" /\ isGod
    /\ modal' = [modal EXCEPT ![m] = TRUE]
    /\ ev' = Ev("open_modal", TRUE)
    /\ logs' = << >>
    /\ UNCHANGED <<build, appMode, currentSlot, player, equipment, inventory, zone,
                   combat, tempAlloc, storage, now>>
    /\ Rearm(Deps' # Deps)

\* a handler that only replaces the player and logs
PlayerOnly(op, ok, p, lg) ==
    /\ player' = p
    /\ ev' = Ev(op, ok)
    /\ logs' = lg
    /\ UNCHANGED <<build, appMode, currentSlot, equipment, inventory, zone, combat,
                   tempAlloc, modal, storage, now>>
    /\ Rearm(ok)

changeClass(newClass) ==
    /\ Going
    /\ InGame /\ modal.class
    /\ player' = [player EXCEPT !.class = newClass]
    /\ modal' = [modal EXCEPT !.class = FALSE]
    /\ ev' = Ev("change_class", TRUE)
    /\ logs' = <<"class">>
    /\ UNCHANGED <<build, appMode, currentSlot, equipment, inventory, zone, combat,
                   tempAlloc, storage, now>>
    /\ Rearm(TRUE)

\* {...p.skills, [id]: (p.skills[id] || 0) + 1}: a known key keeps its place
RaiseSkill(skills, id) ==
    IF \E i \in 1..Len(skills) : skills[i].id = id
    THEN [i \in 1..Len(skills) |->
            IF skills[i].id = id THEN [skills[i] EXCEPT !.rank = skills[i].rank + 1]
            ELSE skills[i]]
    ELSE Append(skills, [id |-> id, rank |-> 1])

\* the upgrade button is rendered for the skills of the player's class when
\* skillPoints > 0 and the level is at least the skill's minLevel
learnSkill(skillId) ==
    /\ Going
    /\ Screen
    /\ SKILL_DB[skillId].reqClass = player.class
    /\ player.level >= SKILL_DB[skillId].minLevel
    /\ player.skillPoints > 0
    /\ PlayerOnly("learn_skill", TRUE,
                  [player EXCEPT !.skillPoints = player.skillPoints - 1,
                                 !.skills = RaiseSkill(player.skills, skillId)], << >>)

\* god modal: auto-equip checkbox, game speed slider, model override
setGodAutoEquip(checked) ==
    /\ Going
    /\ InGame /\ modal.god
    /\ PlayerOnly("god_auto", TRUE, [player EXCEPT !.godModeAutoEquip = checked], << >>)

setGameSpeed(v) ==
    /\ Going
    /\ InGame /\ modal.god
    /\ PlayerOnly("game_speed", TRUE, [player EXCEPT !.gameSpeed = v], << >>)

setModelOverride(model) ==
    /\ Going
    /\ InGame /\ modal.god
    /\ player' = Spread(player, [modelOverride |-> model])
    /\ modal' = [modal EXCEPT !.god = FALSE]
    /\ ev' = Ev("model", TRUE)
    /\ logs' = << >>
    /\ UNCHANGED <<build, appMode, currentSlot, equipment, inventory, zone, combat,
                   tempAlloc, storage, now>>
    /\ Rearm(TRUE)

setAutoAllocMode(mode) ==
    /\ Going
    /\ Screen
    /\ PlayerOnly("auto_alloc_mode", TRUE, [player EXCEPT !.autoAllocMode = mode], << >>)

\* inv.filter(i => i.id !== item.id): ids are uuids, so exactly the k-th goes
RemoveAt(inv, k) == [i \in 1..(Len(inv) - 1) |-> IF i < k THEN inv[i] ELSE inv[i + 1]]

\* inventory item onClick
equipItem(k) ==
    /\ Going
    /\ Screen
    /\ k \in 1..Len(inventory)
    /\ LET item == inventory[k]
       IN  IF player.level < item.reqLevel
           THEN /\ ev' = [Ev("equip", FALSE) EXCEPT !.arg = item.reqLevel]
                /\ logs' = <<"level_low">>
                /\ UNCHANGED <<equipment, inventory>>
           ELSE /\ equipment' = [equipment EXCEPT ![item.slot] = item]
                /\ inventory' = RemoveAt(inventory, k)
                                  \o (IF equipment[item.slot] # NoItem
                                      THEN <<equipment[item.slot]>> ELSE << >>)
                /\ ev' = [Ev("equip", TRUE) EXCEPT !.arg = item.reqLevel]
                /\ logs' = << >>
    /\ UNCHANGED <<build, appMode, currentSlot, player, zone, combat, tempAlloc,
                   modal, storage, now>>
    /\ Rearm(Deps' # Deps)

\* inventory item onContextMenu: sell
sellItem(k) ==
    /\ Going
    /\ Screen
    /\ k \in 1..Len(inventory)
    /\ player' = [player EXCEPT !.gold = player.gold + inventory[k].value]
    /\ inventory' = RemoveAt(inventory, k)
    /\ ev' = Ev("sell", TRUE)
    /\ logs' = << >>
    /\ UNCHANGED <<build, appMode, currentSlot, equipment, zone, combat, tempAlloc,
                   modal, storage, now>>
    /\ Rearm(Deps' # Deps)

\* shop: healing potion
buyPotion ==
    /\ Going
    /\ Screen
    /\ IF player.gold >= PotionPrice
       THEN PlayerOnly("buy_potion", TRUE,
                [player EXCEPT !.gold = player.gold - PotionPrice,
                               !.potions = player.potions + 1], << >>)
       ELSE PlayerOnly("buy_potion", FALSE, player, << >>)

buyMysteryItem ==
    /\ Going
    /\ Screen
    /\ IF player.gold >= MysteryPrice
       THEN \E loot \in generateLoot(build, player.level, "", player.godModeEnabled) :
              LET paid == [player EXCEPT !.gold = player.gold - MysteryPrice]
                  d == Dispose(build, player, equipment, inventory, paid, loot)
              IN  /\ player' = d.p
                  /\ equipment' = d.equipment
                  /\ inventory' = d.inventory
                  /\ ev' = [Ev("buy_mystery", TRUE) EXCEPT !.loot = d.loot,
                                                                !.item = GodItem(player, loot)]
                  /\ logs' = d.logs
       ELSE /\ ev' = Ev("buy_mystery", FALSE)
            /\ logs' = <<"no_gold">>
            /\ UNCHANGED <<player, equipment, inventory>>
    /\ UNCHANGED <<build, appMode, currentSlot, zone, combat, tempAlloc, modal,
                   storage, now>>
    /\ Rearm(Deps' # Deps)

resetStats ==
    /\ Going
    /\ Screen
    /\ IF player.gold >= ResetPrice
       THEN LET totalStats == player.str + player.agi + player.int + player.sta
                baseTotal == 20
                refund == Max(0, totalStats - baseTotal) + player.attributePoints
            IN  /\ player' = [player EXCEPT !.str = 5, !.agi = 5, !.int = 5, !.sta = 5,
                                            !.attributePoints = refund,
                                            !.gold = player.gold - ResetPrice]
                /\ tempAlloc' = NoAlloc
                /\ ev' = Ev("reset_stats", TRUE)
                /\ logs' = <<"stats_reset">>
       ELSE /\ ev' = Ev("reset_stats", FALSE)
            /\ logs' = <<"no_gold">>
            /\ UNCHANGED <<player, tempAlloc>>
    /\ UNCHANGED <<build, appMode, currentSlot, equipment, inventory, zone, combat,
                   modal, storage, now>>
    /\ Rearm(Deps' # Deps)

resetSkills ==
    /\ Going
    /\ Screen
    /\ IF player.gold >= ResetPrice
       THEN PlayerOnly("reset_skills", TRUE,
                [player EXCEPT
                    !.skillPoints = player.skillPoints
                        + SumOver([i \in 1..Len(player.skills) |-> player.skills[i].rank],
                                  1..Len(player.skills)),
                    !.skills = << >>,
                    !.gold = player.gold - ResetPrice], <<"skills_reset">>)
       ELSE PlayerOnly("reset_skills", FALSE, player, <<"no_gold">>)

\* the '+' button next to an attribute
stageAlloc(stat) ==
    /\ Going
    /\ Screen
    /\ pointsAvailable > 0
    /\ player.autoAllocMode = "manual"
    /\ tempAlloc' = [tempAlloc EXCEPT ![stat] = tempAlloc[stat] + 1]
    /\ ev' = Ev("stage", TRUE)
    /\ logs' = << >>
    /\ UNCHANGED <<build, appMode, currentSlot, player, equipment, inventory, zone,
                   combat, modal, storage, now>>
    /\ Rearm(Deps' # Deps)

\* the reset button next to "save allocation"
clearAlloc ==
    /\ Going
    /\ Screen
    /\ tempPointsSpent > 0
    /\ tempAlloc' = NoAlloc
    /\ ev' = Ev("clear_alloc", TRUE)
    /\ logs' = << >>
    /\ UNCHANGED <<build, appMode, currentSlot, player, equipment, inventory, zone,
                   combat, modal, storage, now>>
    /\ Rearm(Deps' # Deps)

confirmStats ==
    /\ Going
    /\ Screen
    /\ tempPointsSpent > 0
    /\ player' = [player EXCEPT !.str = player.str + tempAlloc.str,
                                !.agi = player.agi + tempAlloc.agi,
                                !.int = player.int + tempAlloc.int,
                                !.sta = player.sta + tempAlloc.sta,
                                !.attributePoints = player.attributePoints - tempPointsSpent]
    /\ tempAlloc' = NoAlloc
    /\ ev' = Ev("confirm_stats", TRUE)
    /\ logs' = <<"stats_done">>
    /\ UNCHANGED <<build, appMode, currentSlot, equipment, inventory, zone, combat,
                   modal, storage, now>>
    /\ Rearm(Deps' # Deps)

\* selectZone without the level test
selectZoneAnyLevel(z) ==
    /\ Going
    /\ Screen
    /\ zone' = z
    /\ combat' = NoMob
    /\ ev' = [Ev("zone", TRUE) EXCEPT !.arg = ZONES[z].minLevel]
    /\ logs' = << >>
    /\ UNCHANGED <<build, appMode, currentSlot, player, equipment, inventory,
                   tempAlloc, modal, storage, now>>
    /\ Rearm(Deps' # Deps)

\* zone card onClick of the map tab
selectZone(z) ==
    /\ Going
    /\ Screen
    /\ IF player.level >= ZONES[z].minLevel
       THEN /\ zone' = z
            /\ combat' = NoMob
            /\ ev' = [Ev("zone", TRUE) EXCEPT !.arg = ZONES[z].minLevel]
            /\ logs' = << >>
       ELSE /\ ev' = [Ev("zone", FALSE) EXCEPT !.arg = ZONES[z].minLevel]
            /\ logs' = <<"level_low">>
            /\ UNCHANGED <<zone, combat>>
    /\ UNCHANGED <<build, appMode, currentSlot, player, equipment, inventory,
                   tempAlloc, modal, storage, now>>
    /\ Rearm(Deps' # Deps)

\* samsara tab (punitive build, shown once reincarnation is unlocked)
activateFury ==
    /\ Going
    /\ Screen
    /\ build = "punitive"
    /\ player.reincarnationUnlocked
    /\ player.reincarnationPower >= FuryCost
    /\ PlayerOnly("fury", TRUE,
           [player EXCEPT !.reincarnationPower = player.reincarnationPower - FuryCost,
                          !.sixPathsPower = player.sixPathsPower + 1,
                          !.furyEnabled = TRUE], <<"fury">>)

buyMartialArt(art) ==
    /\ Going
    /\ Screen
    /\ build = "punitive"
    /\ player.reincarnationUnlocked
    /\ IF player.sixPathsPower >= MARTIAL_ARTS_DB[art].cost
       THEN IF \E i \in 1..Len(player.passiveArts) : player.passiveArts[i] = art
            THEN PlayerOnly("buy_art", FALSE, player, <<"art_owned">>)
            ELSE PlayerOnly("buy_art", TRUE,
                     [player EXCEPT !.sixPathsPower = player.sixPathsPower
                                                       - MARTIAL_ARTS_DB[art].cost,
                                    !.passiveArts = Append(player.passiveArts, art)],
                     <<"art_learned">>)
       ELSE PlayerOnly("buy_art", FALSE, player, <<"no_power">>)

(***************************************************************************)
(* Saving.                                                                 *)
(***************************************************************************)
\* timestamp of the record a slot holds (0 when it holds none)
StoredTime(store, i) ==
    IF "timestamp" \in DOMAIN store[i] THEN store[i].timestamp ELSE 0

\* a save of the running game into the current slot
SaveNow(op) ==
    /\ storage' = saveToSlot(storage, currentSlot, Snapshot, now)
    /\ ev' = [Ev(op, TRUE) EXCEPT !.ts = StoredTime(storage, currentSlot)]
    /\ logs' = IF op = "save" THEN <<"saved">> ELSE << >>

\* the 5-second autosave interval
Autosave ==
    /\ Going
    /\ InGame
    /\ now >= saveTimer.armed + AutosavePeriod
    /\ SaveNow("autosave")
    /\ saveTimer' = [armed |-> now, base |-> now]
    /\ UNCHANGED <<build, appMode, currentSlot, player, equipment, inventory, zone,
                   combat, tempAlloc, modal, now>>

\* the "save game" button (src/index.tsx only)
SaveGame ==
    /\ Going
    /\ Screen
    /\ build = "lenient"
    /\ SaveNow("save")
    /\ UNCHANGED <<build, appMode, currentSlot, player, equipment, inventory, zone,
                   combat, tempAlloc, modal, now>>
    /\ Rearm(Deps' # Deps)

\* the "exit" button: save, then back to the slot screen
ExitGame ==
    /\ Going
    /\ Screen
    /\ SaveNow("exit")
    /\ appMode' = "slot-select"
    /\ UNCHANGED <<build, currentSlot, player, equipment, inventory, zone, combat,
                   tempAlloc, modal, now>>
    /\ Rearm(Deps' # Deps)

\* the "save game" and "exit" buttons when localStorage.setItem throws (the
\* quota is exceeded): saveToSlot catches, the handler goes on
SaveFails(op) ==
    /\ Going
    /\ Screen
    /\ op = "save" => build = "lenient"
    /\ appMode' = IF op = "exit" THEN "slot-select" ELSE appMode
    /\ ev' = Ev(op, FALSE)
    /\ logs' = IF op = "save" THEN <<"saved">> ELSE << >>
    /\ UNCHANGED <<build, currentSlot, player, equipment, inventory, zone, combat,
                   tempAlloc, modal, storage, now>>
    /\ Rearm(Deps' # Deps)

\* time passes
ClockTick(d) ==
    /\ Going
    /\ now + d <= MaxNow * 1000
    /\ now' = now + d
    /\ ev' = Ev("clock", TRUE)
    /\ logs' = << >>
    /\ UNCHANGED <<build, appMode, currentSlot, player, equipment, inventory, zone,
                   combat, tempAlloc, modal, storage>>
    /\ Rearm(Deps' # Deps)

(***************************************************************************)
(* Initial states: the application as constructed (slot screen, default    *)
(* character), with save slot 0 holding a record written by an earlier     *)
(* session and the other slots empty.                                      *)
(***************************************************************************)
\* a record as an older version wrote it: only the name and the level
Legacy(u, L) == [player |-> [username |-> u, level |-> L]]

\* a full record of build b: the default character with `fields` over it
Saved(b, name, fields, eq, inv, z) ==
    Serialize([player |-> Spread(getBaseStats(b, 1, name), fields),
               equipment |-> eq, inventory |-> inv, zoneId |-> ZONES[z].id], 0)

\* a drop of generateLoot whose stat rolls all landed on `stat`
Gear(level, quality, slot, stat) ==
    LET item == LootItem(level, quality, slot,
                    [s \in StatTypes |-> IF s = stat THEN LootBudget(level, quality) ELSE 0])
    IN  [item EXCEPT !.score = calculateItemScore(item)]

\* the fields of the reincarnation system (punitive build): ten defeats behind,
\* one fury already spent
Samsara(b) ==
    IF b = "punitive"
    THEN [reincarnationUnlocked |-> TRUE, reincarnationPower |-> 10, sixPathsPower |-> 1]
    ELSE << >>

\* a level-11 warrior one kill short of level 12, with an epic sword, the
\* given rage and, in the bag, legs it can wear from level 12 on
Veteran(b, rage) ==
    Saved(b, "hero",
          Spread([class |-> "warrior", level |-> 11, xp |-> 1090, maxXp |-> 1100,
                  str |-> 14, attributePoints |-> 1, skillPoints |-> 1,
                  skills |-> << [id |-> "heroic_strike", rank |-> 1] >>,
                  rage |-> rage, mobsKilled |-> 40, gold |-> 1000], Samsara(b)),
          [EmptyEquipment EXCEPT !.weapon = Gear(10, "epic", "weapon", "str")],
          << Gear(12, "common", "legs", "sta") >>, 1)

\* a level-11 mage at full mana with an epic staff, one kill short of the end
\* of the tutorial; a sword in the bag
Mage(b) ==
    Saved(b, "hero",
          [class |-> "mage", level |-> 11, xp |-> 300, maxXp |-> 1100,
           int |-> 15, skillPoints |-> 1,
           skills |-> << [id |-> "frostbolt", rank |-> 1] >>,
           mana |-> 6000, mobsKilled |-> TutorialKills - 1, gold |-> 1000],
          [EmptyEquipment EXCEPT !.weapon = Gear(10, "epic", "weapon", "int")],
          << Gear(10, "epic", "weapon", "str") >>, 1)

\* the god-mode user with auto-equip on, at full health, with an epic sword
\* and the given legs (NoItem: none)
God(b, legs) ==
    Saved(b, "cnm",
          [level |-> 11, xp |-> 300, maxXp |-> 1100, str |-> 15,
           godModeAutoEquip |-> TRUE,
           hp |-> IF legs = NoItem THEN 500 ELSE 500 + legs.stats.sta * 100,
           mobsKilled |-> 40],
          [EmptyEquipment EXCEPT !.weapon = Gear(10, "epic", "weapon", "str"),
                                 !.legs = legs],
          << >>, 1)

\* a level-10 novice in the second zone, saved after the hit that took the
\* last of its health, its tutorial just over
Fallen(b) ==
    Saved(b, "hero",
          [level |-> 10, xp |-> 300, maxXp |-> 1000, sta |-> 14, hp |-> 0,
           mobsKilled |-> TutorialKills],
          EmptyEquipment, << >>, 2)

\* a full bag
FullBag(b) == [i \in 1..InventoryCap(b) |-> Gear(1, "common", "head", "sta")]

\* a level-11 novice down to its last point of health, with a full bag and
\* the price of a mystery item
Packed(b) ==
    Saved(b, "hero",
          [level |-> 11, xp |-> 300, maxXp |-> 1100, str |-> 15, hp |-> 10,
           mobsKilled |-> 40, gold |-> 2000],
          [EmptyEquipment EXCEPT !.weapon = Gear(10, "epic", "weapon", "str")],
          FullBag(b), 1)

\* the rage of the saved warrior: the cost of its skill, and two below the cap
VeteranRage == {SKILL_DB.heroic_strike.cost, MaxRage - 2}

\* the legs of the saved god-mode user: none, or common legs of stamina
GodLegs == {NoItem, Gear(1, "common", "legs", "sta")}

\* the levels of the legacy records explored
LegacyLevels == {1 + k : k \in Rolls(MaxLegacyLevel)}

GameSaves(b) ==
    {Legacy("hero", L) : L \in LegacyLevels}
        \cup {Veteran(b, rage) : rage \in VeteranRage}
        \cup {God(b, legs) : legs \in GodLegs}
        \cup {Mage(b), Fallen(b), Packed(b)}

Init ==
    /\ build \in Builds
    /\ appMode = "slot-select"
    /\ currentSlot = 0
    /\ player = getBaseStats(build, 1, "")
    /\ equipment = EmptyEquipment
    /\ inventory = << >>
    /\ zone = 1
    /\ combat = NoMob
    /\ tempAlloc = NoAlloc
    /\ modal = NoModal
    /\ \E r \in GameSaves(build) : storage = [i \in Slots |-> IF i = 0 THEN r ELSE NoSave]
    /\ now = 1
    /\ saveTimer = NoTimer
    /\ ev = NoEv
    /\ logs = << >>

\* the user inputs explored of an ordered choice
Picks(seq) == {seq[i + 1] : i \in Rolls(Len(seq))}
\* the zone cards clicked: the first two and the last
ZonePicks == {1, 2, Len(ZONES)}
AutoAllocOrder == <<"manual", "str", "agi", "int", "sta", "str_agi", "int_sta">>
ArtOrder == <<"art_1", "art_2", "art_3", "art_4", "art_5">>

\* the slot screen, character creation and the modals
Session ==
    \/ \E i \in Rolls(Cardinality(Slots)) : SelectSlot(i)
    \/ \E name \in Names : CreateChar(name)
    \/ BackToSlots
    \/ \E m \in DOMAIN NoModal : CloseModal(m)
    \/ \E m \in {"class", "god"} : OpenModal(m)

\* the handlers of the god modal and of the character, bag, shop and map tabs
Clicks ==
    \/ \E c \in {"warrior", "mage"} : changeClass(c)
    \/ \E id \in SkillIds : learnSkill(id)
    \/ \E checked \in BOOLEAN : setGodAutoEquip(checked)
    \/ \E k \in Rolls(10) : setGameSpeed(k + 1)
    \/ \E m \in Picks(ModelNames) : setModelOverride(m)
    \/ \E mode \in Picks(AutoAllocOrder) : setAutoAllocMode(mode)
    \/ \E k \in 1..Len(inventory) : equipItem(k)
    \/ \E k \in 1..Len(inventory) : sellItem(k)
    \/ buyPotion
    \/ buyMysteryItem
    \/ resetStats
    \/ resetSkills
    \/ \E stat \in StatTypes : stageAlloc(stat)
    \/ clearAlloc
    \/ confirmStats
    \/ \E z \in ZonePicks : selectZone(z)
    \/ activateFury
    \/ \E art \in Picks(ArtOrder) : buyMartialArt(art)

\* playing: the combat loop runs while the user clicks
Next == Session \/ Tick \/ Clicks

Spec == Init /\ [][Next]_vars

\* saving and loading: the autosave interval, the save and exit buttons and
\* the clock run while the user clicks; the combat loop is left out
NextSave ==
    \/ Session
    \/ Autosave
    \/ SaveGame
    \/ ExitGame
    \/ \E d \in {TickPeriod, AutosavePeriod} : ClockTick(d)
    \/ Clicks

SpecSave == Init /\ [][NextSave]_vars

\* playing with the save and exit buttons at hand: the combat loop runs while
\* the user clicks, saves and leaves for the slot screen (no autosave falls
\* due within the handlers explored)
NextPlay == Session \/ Tick \/ SaveGame \/ ExitGame \/ Clicks

SpecPlay == Init /\ [][NextPlay]_vars

(***************************************************************************)
(* The pure functions of IdleWowCore on inputs drawn from bounded sets: a  *)
(* saved character of any agility, with an item of any quality and stat    *)
(* mapping in its bag, is loaded; the item is put on, a mystery item is    *)
(* bought and scored against it, fury is lit and passive arts are bought,  *)
(* each render deriving the combat stats anew.                             *)
(***************************************************************************)
\* type ItemQuality
Qualities == {"poor", "common", "rare", "epic"}

\* the base agility of the saved character: none, and around the points at
\* which the critical chance reaches 1.0 (20 at 0.05 a point, 100 at 0.01)
CoreAgi == {0, 10, 20, 21, 100, 101}

\* the stat mappings of the saved item: ten points on one attribute, on two,
\* on all four, and seven points of agility
CoreStats ==
    {[str |-> 10, agi |-> 0, int |-> 0, sta |-> 0],
     [str |-> 0,  agi |-> 5, int |-> 0, sta |-> 5],
     [str |-> 3,  agi |-> 3, int |-> 2, sta |-> 2],
     [str |-> 0,  agi |-> 7, int |-> 0, sta |-> 0]}

\* an item as a record holds it: the score it carries is the one written when
\* it was generated, or the 0 of an item that was never scored
CoreItem(q, st, scored) ==
    LET item == [slot |-> "legs", quality |-> q, stats |-> st, value |-> 100,
                 reqLevel |-> 1, score |-> 0]
    IN  IF scored THEN [item EXCEPT !.score = calculateItemScore(item)] ELSE item

\* the god-mode user at level 1 with auto-equip on, of the given agility, with
\* the item in its bag and the price of a mystery item
Core(b, agi, item) ==
    Saved(b, "cnm",
          Spread([agi |-> agi, godModeAutoEquip |-> TRUE, mobsKilled |-> 40,
                  gold |-> MysteryPrice], Samsara(b)),
          EmptyEquipment, << item >>, 1)

CoreSaves(b) ==
    {Core(b, agi, CoreItem(q, st, scored)) :
        <<agi, q, st, scored>> \in CoreAgi \X Qualities \X CoreStats \X BOOLEAN}

InitCore ==
    /\ build \in Builds
    /\ appMode = "slot-select"
    /\ currentSlot = 0
    /\ player = getBaseStats(build, 1, "")
    /\ equipment = EmptyEquipment
    /\ inventory = << >>
    /\ zone = 1
    /\ combat = NoMob
    /\ tempAlloc = NoAlloc
    /\ modal = NoModal
    /\ \E r \in CoreSaves(build) : storage = [i \in Slots |-> IF i = 0 THEN r ELSE NoSave]
    /\ now = 1
    /\ saveTimer = NoTimer
    /\ ev = NoEv
    /\ logs = << >>

NextCore ==
    \/ \E i \in Rolls(Cardinality(Slots)) : SelectSlot(i)
    \/ \E k \in 1..Len(inventory) : equipItem(k)
    \/ buyMysteryItem
    \/ activateFury
    \/ \E art \in Picks(ArtOrder) : buyMartialArt(art)

SpecCore == InitCore /\ [][NextCore]_vars

(***************************************************************************)
(* A new character's first fights: every slot is empty, a character is     *)
(* created, the welcome modal is closed and the combat loop runs until the *)
(* kill counter reaches the end of the tutorial.                           *)
(***************************************************************************)
InitTutorial ==
    /\ build \in Builds
    /\ appMode = "slot-select"
    /\ currentSlot = 0
    /\ player = getBaseStats(build, 1, "")
    /\ equipment = EmptyEquipment
    /\ inventory = << >>
    /\ zone = 1
    /\ combat = NoMob
    /\ tempAlloc = NoAlloc
    /\ modal = NoModal
    /\ storage = [i \in Slots |-> NoSave]
    /\ now = 1
    /\ saveTimer = NoTimer
    /\ ev = NoEv
    /\ logs = << >>

\* the ticks explored of these fights: those whose kill drops nothing (the
\* bag of a novice has no part in the exchange)
TutorialTick == Learning /\ CombatTick /\ inventory' = inventory

NextTutorial ==
    \/ SelectSlot(0)
    \/ \E name \in Names : CreateChar(name)
    \/ CloseModal("welcome")
    \/ TutorialTick

SpecTutorial == InitTutorial /\ [][NextTutorial]_vars

(***************************************************************************)
(* Allocating attribute points while the combat loop runs: a saved game    *)
(* has just been loaded (the slot card was the last handler).              *)
(***************************************************************************)
\* a level-10 novice in the second zone, defeated before, saved with no
\* health left, the given number of unspent attribute points, the skill point
\* of level 10 and fifty experience short of level 11
Downed(b, points) ==
    Saved(b, "hero",
          Spread([level |-> 10, xp |-> 950, maxXp |-> 1000, sta |-> 14, hp |-> 0,
                  attributePoints |-> points, skillPoints |-> 1,
                  mobsKilled |-> 40, gold |-> ResetPrice],
                 Samsara(b)),
          EmptyEquipment, << >>, 2)

\* the downed characters, and a new character that owns the price of a reset
AllocSaves(b) ==
    {Downed(b, points) : points \in {1, 2, 3}}
        \cup {Saved(b, "hero", [gold |-> ResetPrice], EmptyEquipment, << >>, 1)}

\* the state the slot card leaves when the first slot holds record r
Loaded(r) ==
    LET saved == loadSlot(build, [i \in Slots |-> IF i = 0 THEN r ELSE NoSave], 0)
    IN  /\ appMode = "game"
        /\ currentSlot = 0
        /\ player = saved.player
        /\ equipment = saved.equipment
        /\ inventory = saved.inventory
        /\ zone = ZoneIndexOf(saved.zoneId)
        /\ combat = NoMob
        /\ tempAlloc = NoAlloc
        /\ modal = NoModal
        /\ storage = [i \in Slots |-> IF i = 0 THEN r ELSE NoSave]
        /\ now = 1
        /\ saveTimer = [armed |-> 1, base |-> 1]
        /\ ev = [NoEv EXCEPT !.op = "load"]
        /\ logs = << >>

InitAlloc ==
    /\ build \in Builds
    /\ \E r \in AllocSaves(build) : Loaded(r)

NextAlloc ==
    \/ Tick
    \/ \E stat \in StatTypes : stageAlloc(stat)
    \/ clearAlloc
    \/ confirmStats
    \/ resetStats
    \/ \E mode \in Picks(AutoAllocOrder) : setAutoAllocMode(mode)

SpecAlloc == InitAlloc /\ [][NextAlloc]_vars

(***************************************************************************)
(* The first encounter of a loaded game, fought to its end: the interval   *)
(* of the combat loop keeps firing and the user does nothing.              *)
(***************************************************************************)
FightSaves(b) ==
    {Legacy("hero", 1), Mage(b), Downed(b, 1)}

InitFight ==
    /\ build \in Builds
    /\ \E r \in FightSaves(build) : Loaded(r)

\* the ticks of the encounter, those whose kill drops nothing
FightTick == Fighting /\ CombatTick /\ inventory' = inventory

SpecFight == InitFight /\ [][FightTick]_vars

(***************************************************************************)
(* Leaving a loaded game: the exit button, the slot cards and the creation *)
(* screen, while the combat loop runs.                                     *)
(***************************************************************************)
NextLeave ==
    \/ Tick
    \/ ExitGame
    \/ \E i \in Rolls(Cardinality(Slots)) : SelectSlot(i)
    \/ \E name \in Names : CreateChar(name)
    \/ BackToSlots

SpecLeave == InitFight /\ [][NextLeave]_vars

(***************************************************************************)
(* Level-ups: a loaded warrior one kill short of the next level, in every  *)
(* auto-allocation mode and at a level of either parity, fights on.        *)
(***************************************************************************)
ClimbLevels == {SkillUnlockLevel, SkillUnlockLevel + 1}

\* the veteran at level L, ten experience short of the next, in the given mode
Climber(b, mode, L) ==
    LET r == Veteran(b, SKILL_DB.heroic_strike.cost)
    IN  [r EXCEPT !.player = Spread(r.player,
                     [autoAllocMode |-> mode, level |-> L,
                      xp |-> L * 100 - 10, maxXp |-> L * 100])]

InitLevel ==
    /\ build \in Builds
    /\ \E mode \in AutoAllocModes, L \in ClimbLevels : Loaded(Climber(build, mode, L))

\* the ticks whose kill drops nothing
LevelTick == Tick /\ inventory' = inventory

SpecLevel == InitLevel /\ [][LevelTick]_vars

(***************************************************************************)
(* The skill scan: a loaded warrior who knows heroic strike and execute,   *)
(* with rage below, at and above their costs, or a mage who knows          *)
(* frostbolt, with mana below and above its cost, fights on.               *)
(***************************************************************************)
InitSkill ==
    LET rages  == {SKILL_DB.heroic_strike.cost - 1, SKILL_DB.heroic_strike.cost,
                   SKILL_DB.execute.cost, MaxRage - 2}
        slayer(rage) ==
            LET r == Veteran(build, rage)
            IN  [r EXCEPT !.player = Spread(r.player,
                             [skillPoints |-> 0,
                              skills |-> << [id |-> "heroic_strike", rank |-> 1],
                                            [id |-> "execute", rank |-> 1] >>])]
        caster(mana) ==
            LET r == Mage(build)
            IN  [r EXCEPT !.player = Spread(r.player, [mana |-> mana])]
    IN  /\ build \in Builds
        /\ \E r \in {slayer(rage) : rage \in rages}
                       \cup {caster(mana) : mana \in {500, 6000}} : Loaded(r)

SpecSkill == InitSkill /\ [][LevelTick]_vars

(***************************************************************************)
(* Storage faults: the first slot holds no record, content that is no      *)
(* record, or a record; writes may fail.                                   *)
(***************************************************************************)
StoreSaves(b) ==
    {NoSave, Unparseable, JsonNull, EmptyObject, Legacy("hero", 1),
     Veteran(b, SKILL_DB.heroic_strike.cost)}

InitStore ==
    /\ build \in Builds
    /\ appMode = "slot-select"
    /\ currentSlot = 0
    /\ player = getBaseStats(build, 1, "")
    /\ equipment = EmptyEquipment
    /\ inventory = << >>
    /\ zone = 1
    /\ combat = NoMob
    /\ tempAlloc = NoAlloc
    /\ modal = NoModal
    /\ \E r \in StoreSaves(build) : storage = [i \in Slots |-> IF i = 0 THEN r ELSE NoSave]
    /\ now = 1
    /\ saveTimer = NoTimer
    /\ ev = NoEv
    /\ logs = << >>

NextStore ==
    \/ \E i \in Rolls(Cardinality(Slots)) : SelectSlot(i)
    \/ \E name \in Names : CreateChar(name)
    \/ BackToSlots
    \/ CloseModal("welcome")
    \/ SaveGame
    \/ ExitGame
    \/ \E op \in {"save", "exit"} : SaveFails(op)
    \/ \E k \in 1..Len(inventory) : sellItem(k)
    \/ \E stat \in StatTypes : stageAlloc(stat)
    \/ confirmStats

SpecStore == InitStore /\ [][NextStore]_vars

(***************************************************************************)
(* Properties.                                                             *)
(***************************************************************************)
\* the derived stats of the current render
derivedStats == calculateCombatStats(build, player, equipment)

\* the last handler run was a tick of the combat loop
AfterTick == ev.op = "tick"

\* C1: after any resolved tick, 0 <= hp <= maxHp, maxHp being derived from
\* the attributes and the equipment as they stand after the tick.
C1_HpWithinMaxHp ==
    AfterTick => (0 <= player.hp /\ player.hp <= derivedStats.maxHp)

\* C2: after any resolved tick, 0 <= mana <= maxMana for every class, maxMana
\* being derived from the attributes and the equipment after the tick.
C2_ManaWithinMaxMana ==
    AfterTick => (0 <= player.mana /\ player.mana <= derivedStats.maxMana)

\* C3: after any resolved tick, 0 <= rage <= 100, also when the out-of-combat
\* decay, a rage skill, the +5 of the attack and the +2 of a hit all apply.
C3_RageWithinBounds ==
    AfterTick => (0 <= player.rage /\ player.rage <= MaxRage)

\* C3 witness: a tick that spawned the monster (so the decay ran), in which a
\* rage skill was paid, the attack gave +5 and the monster's hit gave +2
C3_Witness ==
    /\ AfterTick /\ ev.spawned /\ ev.mobActed
    /\ ev.skill \in {id \in SkillIds : SKILL_DB[id].costType = "rage"}
    /\ player.class = "warrior"

\* C4: a kill that brings xp to threshold + r, 0 <= r < threshold, gives
\* level + 1, xp = r and threshold (level + 1) * 100 in the one update that
\* gives the rewards; no kill lowers the level.
C4_LevelUpCarriesOver ==
    [][(ev'.op = "tick" /\ ev'.kill) =>
          LET total == player.xp + ev'.xpGain
              r == total - player.maxXp
          IN  /\ player'.level >= player.level
              /\ player'.mobsKilled = player.mobsKilled + 1
              /\ (0 <= r /\ r < player.maxXp) =>
                     /\ player'.level = player.level + 1
                     /\ player'.xp = r
                     /\ player'.maxXp = (player.level + 1) * 100
              /\ r < 0 => (player'.level = player.level /\ player'.xp = total)]_vars

\* C4 witness: a kill has levelled the character up with experience left over
C4_Witness ==
    AfterTick /\ ev.kill /\ ev.levelUp /\ player.xp > 0

\* C5: in every reachable state maxXp = level * 100, also after loadSlot of
\* a legacy record that persists a level and no maxXp.
C5_ThresholdIsLevelTimes100 ==
    player.maxXp = player.level * 100

\* number of "bag full" entries among the log entries of a handler
BagFullLogs(lg) == Cardinality({i \in 1..Len(lg) : lg[i] = "bag_full"})

\* C6: the inventory never holds more than its capacity; an insertion at
\* capacity leaves it unchanged and logs "bag full" exactly once.
C6_InventoryWithinCapacity ==
    [][/\ Len(inventory') <= InventoryCap(build)
       /\ (ev'.loot \in {"stored", "lost"} /\ Len(inventory) >= InventoryCap(build)) =>
              /\ inventory' = inventory
              /\ ev'.loot = "lost"
              /\ BagFullLogs(logs') = 1]_vars

\* C6 witness: a drop or a purchase found the bag full and was lost
C6_Witness ==
    /\ ev.op \in {"tick", "buy_mystery"}
    /\ ev.loot = "lost"
    /\ Len(inventory) = InventoryCap(build)

\* the last handler run wrote the running game to the current slot
AfterSave == ev.op \in {"autosave", "save", "exit"}

\* C7: loadSlot of a slot just written by saveToSlot gives the saved character
\* in every field, the saved equipment, inventory and zone id; the timestamp
\* is that of the save, no earlier than the one of the record written over.
C7_SaveLoadRoundTrip ==
    AfterSave =>
        LET r == loadSlot(build, storage, currentSlot)
        IN  /\ r # NoSave
            /\ r.player = player
            /\ r.equipment = equipment
            /\ r.inventory = inventory
            /\ r.zoneId = ZONES[zone].id
            /\ r.timestamp = now
            /\ r.timestamp >= ev.ts

\* C7 witness: a save, at a later time, of a character that differs from the
\* default one and carries items
C7_Witness ==
    /\ AfterSave
    /\ storage[currentSlot].timestamp > ev.ts
    /\ player.level > 1
    /\ inventory # << >>

\* the slot loaded holds a minimal legacy record {player: {username, level}}
LegacyLoaded ==
    /\ ev.op = "load"
    /\ storage[currentSlot] # NoSave
    /\ DOMAIN storage[currentSlot] = {"player"}
    /\ DOMAIN storage[currentSlot].player = {"username", "level"}

\* the fields of PlayerStats that a character always carries
SchemaFields(b) ==
    {"username", "class", "str", "agi", "int", "sta", "attributePoints",
     "autoAllocMode", "hp", "maxHp", "mana", "maxMana", "rage", "xp", "maxXp",
     "level", "skillPoints", "skills", "mobsKilled", "gold", "potions",
     "godModeEnabled", "godModeAutoEquip", "gameSpeed"}
      \cup (IF b = "punitive"
            THEN {"reincarnationUnlocked", "reincarnationPower", "sixPathsPower",
                  "furyEnabled", "passiveArts"}
            ELSE {})

\* C8: loading {player: {username, level}} succeeds and gives a character
\* with every field of the schema, four empty equipment slots and an empty
\* inventory.
C8_LegacyRecordFullyPopulated ==
    LegacyLoaded =>
        /\ ev.ok /\ appMode = "game"
        /\ SchemaFields(build) \subseteq DOMAIN player
        /\ player.username = storage[currentSlot].player.username
        /\ player.level = storage[currentSlot].player.level
        /\ equipment = EmptyEquipment
        /\ inventory = << >>

\* C8 witness: a legacy record of a level above 1 has been loaded
C8_Witness ==
    LegacyLoaded /\ ev.ok /\ player.level > 1

\* the record of the current slot was loaded and its player lacks field k
LoadedWithout(k) ==
    /\ ev.op = "load" /\ ev.ok
    /\ "player" \in DOMAIN storage[currentSlot]
    /\ k \notin DOMAIN storage[currentSlot].player

\* C9: loading a record with a level L and no skillPoints gives
\* skillPoints = max(0, L - 9).
C9_SkillPointsFromLevel ==
    LoadedWithout("skillPoints") =>
        player.skillPoints = Max(0, storage[currentSlot].player.level - 9)

\* C10: loading a record with no kill counter gives a nonzero counter when
\* the level is above 1 and zero otherwise, so the first monster spawned for
\* a legacy character above level 1 comes from the zone pool.
C10_KillCounterFromLevel ==
    /\ LoadedWithout("mobsKilled") =>
           ((player.mobsKilled # 0) <=> (storage[currentSlot].player.level > 1))
    /\ (/\ AfterTick /\ ev.spawned /\ combat # NoMob
        /\ "player" \in DOMAIN storage[currentSlot]
        /\ "mobsKilled" \notin DOMAIN storage[currentSlot].player
        /\ storage[currentSlot].player.level > 1) =>
           combat.template.id[1] # 0

\* an entry of the given kind is among the log entries of the last handler
Logged(kind) == \E i \in 1..Len(logs) : logs[i] = kind

\* C11: in a tick in which the monster's hp reaches 0 or less, the player
\* acted and the monster did not (no hit, no dodge), the kill branch ran
\* (death logged, one more kill than the loaded record allows to count, the
\* encounter is idle) and the defeat branch did not, whatever the player's hp.
C11_KillBeforeDefeat ==
    (AfterTick /\ ev.mobDown) =>
        /\ ev.playerActed /\ ~ev.mobActed
        /\ ~Logged("hit") /\ ~Logged("dodge")
        /\ ev.kill /\ Logged("death") /\ combat = NoMob
        /\ ~ev.defeat /\ ~Logged("defeat")

\* a monster of the first zone died in the tick in which its weakest hit
\* would have taken the last of the player's health
C11_Witness ==
    /\ AfterTick /\ ev.mobDown /\ ev.kill
    /\ player.hp > 0
    /\ player.hp < generateZoneMobs(1, 0).minDmg

\* C12: a tick that spawns an encounter while the kill counter is below 3
\* spawns the fixed tutorial template (level 1, 15 hp, 1-2 damage, no boss)
\* at full hp whatever the zone; with a counter of 3 or more the template is
\* one of the pool of the current zone.
C12_TutorialSpawn ==
    [][(ev'.op = "tick" /\ ev'.spawned) =>
         IF player.mobsKilled < 3
         THEN /\ ev'.template.level = 1 /\ ev'.template.baseHp = 15
              /\ ev'.template.minDmg = 1 * 10 /\ ev'.template.maxDmg = 2 * 10
              /\ ~ev'.template.isBoss
              /\ ev'.template.id[1] = 0
         ELSE \E i \in 0..(MobCount - 1) : ev'.template = generateZoneMobs(zone, i)]_vars

\* a character that has killed nothing yet met the tutorial monster in a
\* zone other than the first
C12_Witness ==
    /\ AfterTick /\ ev.spawned /\ ~ev.kill
    /\ zone # 1 /\ player.mobsKilled = 0
    /\ combat # NoMob /\ combat.template.id[1] = 0

\* the time at which the installed autosave interval fires next
AutosaveDue == saveTimer.armed + AutosavePeriod

\* C13: in game mode the autosave keeps a fixed 5-second cadence whatever the
\* ticks and the clicks change: the next autosave is always due at most
\* 5 seconds after game mode was entered or the previous autosave ran.
C13_AutosaveFixedCadence ==
    InGame => AutosaveDue <= saveTimer.base + AutosavePeriod

\* C14: while a modal that must be dismissed is open (welcome, class
\* selection, god settings, reincarnation) the combat loop is suspended: no
\* tick runs, so none changes the character or the encounter.
C14_ModalSuspendsTick ==
    [][ev'.op = "tick" => modal = NoModal]_vars

\* C15: switching zones and exiting to the slot screen each discard the
\* encounter in flight: right after either one the encounter is idle, so that
\* the next tick in game mode spawns a fresh monster.
C15_EncounterDiscarded ==
    ((ev.op = "zone" /\ ev.ok) \/ ev.op = "exit") => combat = NoMob

Rejected ==
    \/ ev'.op = "equip" /\ player.level < ev'.arg
    \/ ev'.op = "zone" /\ player.level < ev'.arg
    \/ ev'.op = "buy_mystery" /\ player.gold < 2000
    \/ ev'.op = "reset_stats" /\ player.gold < 1000
    \/ ev'.op = "reset_skills" /\ player.gold < 1000
    \/ ev'.op = "buy_potion" /\ player.gold < 500

\* C17: a rejected input changes nothing: the character, the equipment, the
\* inventory, the zone and the encounter are what they were.
C17_RejectedInputMutatesNothing ==
    [][Rejected => (~ev'.ok /\ UNCHANGED <<player, equipment, inventory, zone, combat>>)]_vars

\* an item of the bag was clicked that asks for more than the character's
\* level, with an encounter in flight
C17_Witness ==
    /\ ev.op = "equip" /\ ~ev.ok
    /\ player.level < ev.arg
    /\ \E k \in 1..Len(inventory) : inventory[k].reqLevel = ev.arg
    /\ combat # NoMob

\* the score of what a slot holds, an empty slot counting as -1
SlotScore(E, slot) == IF E[slot] = NoItem THEN -1 ELSE calculateItemScore(E[slot])

\* C18: with auto-equip on, a tick's drop is put on if and only if its score
\* is strictly greater than the score of what its slot holds (empty: -1);
\* put on, it brings the gold of the kill plus exactly the value of the item
\* displaced (nothing for an empty slot); otherwise the gold of the kill plus
\* exactly its own value, the equipment staying as it was.  The inventory
\* does not change either way.
C18_AutoEquipRule ==
    [][(ev'.op = "tick" /\ ev'.item # NoItem /\ player.godModeAutoEquip) =>
         LET drop == ev'.item
             worn == equipment[drop.slot]
             base == player.gold + ev'.goldGain
         IN  /\ inventory' = inventory
             /\ IF calculateItemScore(drop) > SlotScore(equipment, drop.slot)
                THEN /\ equipment' = [equipment EXCEPT ![drop.slot] = drop]
                     /\ player'.gold = base + (IF worn = NoItem THEN 0 ELSE worn.value)
                ELSE /\ equipment' = equipment
                     /\ player'.gold = base + drop.value]_vars

\* a drop that ties the item worn in its slot was salvaged
C18_Witness ==
    /\ AfterTick /\ ev.item # NoItem /\ player.godModeAutoEquip
    /\ ev.loot = "salvaged"
    /\ calculateItemScore(ev.item) = SlotScore(equipment, ev.item.slot)

\* C19: an item generateLoot returns with the god mode active has no
\* intellect, its strength, agility and stamina add up to the whole stat
\* budget of its level and quality, and the score it carries is the score
\* of the stats it carries.
C19_GodLootRedistributed ==
    (ev.op \in {"tick", "buy_mystery"} /\ ev.item # NoItem /\ player.godModeEnabled) =>
        /\ ev.item.stats.int = 0
        /\ ev.item.stats.str + ev.item.stats.agi + ev.item.stats.sta
              = LootBudget(ev.item.reqLevel, ev.item.quality)
        /\ ev.item.score = calculateItemScore(ev.item)

\* C20: each of the four base attributes of the character in play (strength,
\* agility, intellect, stamina) is at least 5 in every reachable state: at
\* creation, after a level-up, confirmStats, resetStats and a defeat.
C20_AttributeFloor ==
    InGame => \A s \in StatTypes : player[s] >= 5

\* the agility calculateCombatStats works on: base plus equipment plus passive
\* arts, doubled under fury
TotalAgility ==
    LET sum == player.agi + EquipBonus(equipment, "agi")
                 + (IF build = "punitive" THEN ArtBonus(player, "agi") ELSE 0)
    IN  IF build = "punitive" /\ player.furyEnabled THEN sum * 2 ELSE sum

\* C21: for every total agility calculateCombatStats gives a critical chance
\* in [0,1]; when agility x k (0.01 or 0.05 a point) exceeds 1.0 the chance
\* is exactly 1.0 and the critical damage multiplier exactly 2.0 plus the
\* excess; otherwise the multiplier is exactly 2.0.  (chance in 1/1000)
C21_CritChanceClamped ==
    LET raw == TotalAgility * CritPerAgi(build)
    IN  /\ 0 <= derivedStats.crit /\ derivedStats.crit <= 1000
        /\ IF raw > 1000
           THEN /\ derivedStats.crit = 1000
                /\ derivedStats.critDmg * 10 = 2000 + (raw - 1000)
           ELSE derivedStats.critDmg = 200

\* base agility below the point at which the chance reaches 1.0, carried
\* over it by the item put on
C21_Witness ==
    /\ InGame /\ ev.op = "equip" /\ ev.ok
    /\ player.agi * CritPerAgi(build) <= 1000
    /\ EquipBonus(equipment, "agi") > 0
    /\ derivedStats.crit = 1000
    /\ derivedStats.critDmg > 200

\* the items the character wears or carries
OwnedItems ==
    {inventory[i] : i \in 1..Len(inventory)}
        \cup {equipment[slot] : slot \in {k \in ItemSlots : equipment[k] # NoItem}}

\* the sum of the four bonuses of an item
BonusSum(item) == item.stats.str + item.stats.agi + item.stats.int + item.stats.sta

\* C22: calculateItemScore(item) = 10 x (sum of the four bonuses) + 5 x w,
\* w = 0, 1, 2, 5 for poor, common, rare, epic, whatever score the item
\* carries and however the points are spread; an epic item whose bonuses sum
\* to 10 scores exactly 125.
C22_ItemScoreFormula ==
    \A item \in OwnedItems :
        LET w == CASE item.quality = "poor" -> 0
                   [] item.quality = "common" -> 1
                   [] item.quality = "rare" -> 2
                   [] item.quality = "epic" -> 5
        IN  /\ calculateItemScore(item) = 10 * BonusSum(item) + 5 * w
            /\ (item.quality = "epic" /\ BonusSum(item) = 10) =>
                   calculateItemScore(item) = 125

\* a mystery item for the slot of the legs worn was scored against them and
\* salvaged: epic legs of ten points spread over the four attributes, which
\* carry a score of 0
C22_Witness ==
    /\ ev.op = "buy_mystery" /\ ev.loot = "salvaged"
    /\ ev.item # NoItem /\ ev.item.slot = "legs" /\ ev.item.score > 0
    /\ equipment.legs # NoItem
    /\ equipment.legs.quality = "epic" /\ equipment.legs.score = 0
    /\ \A st \in StatTypes : equipment.legs.stats[st] > 0
    /\ BonusSum(equipment.legs) = 10
    /\ calculateItemScore(equipment.legs) = 125

\* the content of a slot is missing, cannot be parsed, or parses to a value
\* that is no record of a game (it holds no player)
Malformed(content) ==
    \/ content = NoSave
    \/ content = Unparseable
    \/ content = JsonNull
    \/ "player" \notin DOMAIN content

\* C23: loadSlot of a slot that is missing or malformed returns null, and a
\* write that fails in saveToSlot is a silent no-op; neither changes the
\* character, the equipment, the inventory or the encounter in memory.
C23_StorageFailuresSafe ==
    [][/\ (ev'.op = "load" /\ Malformed(storage[currentSlot'])) =>
             /\ loadSlot(build, storage, currentSlot') = NoSave
             /\ ~ev'.ok
             /\ UNCHANGED <<player, equipment, inventory, combat>>
       /\ (ev'.op \in {"save", "exit"} /\ ~ev'.ok) =>
             UNCHANGED <<storage, player, equipment, inventory, combat>>]_vars

\* ticks run since the application started, at game speed 1
TicksRun(t) == (t - 1) \div TickPeriod

\* C24: a fresh level-1 character at full hp fighting the tutorial monsters
\* (15 hp, 1-2 damage): every tick takes at least 2 points off the monster or
\* kills it, so that each monster is dead within 8 ticks of its spawn (the
\* k-th by tick 8k), and the character's hp stays above 0 until the kill
\* counter reaches 3, whatever the rolls.
C24_TutorialIsSafe ==
    [][(ev'.op = "tick" /\ player.mobsKilled < 3) =>
         LET before == IF combat = NoMob THEN 15 * MobUnit ELSE combat.hp
         IN  /\ player'.hp > 0
             /\ ~ev'.defeat
             /\ \/ ev'.kill /\ player'.mobsKilled = player.mobsKilled + 1
                \/ combat' # NoMob /\ combat'.hp > 0 /\ combat'.hp <= before - 2 * MobUnit
             /\ TicksRun(now') <= 8 * (player.mobsKilled + 1)]_vars

\* the third tutorial monster fell at the 24th tick, the slowest the rolls
\* allow, the character having lost health on the way
C24_Witness ==
    /\ AfterTick /\ ev.kill
    /\ player.mobsKilled = 3 /\ player.level = 1
    /\ TicksRun(now) = 24
    /\ player.hp < 400

\* C25: the count of unspent attribute points is never negative, however
\* staging, confirmStats, resetStats, changes of the auto-allocation mode,
\* level-ups and defeats interleave: points staged before a defeat and
\* confirmed after it do not take it below 0.
C25_UnspentPointsNonNegative ==
    player.attributePoints >= 0

\* C26: a defeat is resolved in the tick that causes it: when the monster's
\* hit takes the player's hp to 0, the same tick runs the defeat branch
\* (revival, no encounter left), so no tick ends with the player at 0 hp
\* and a live encounter.
C26_DefeatResolvedInTick ==
    AfterTick =>
        /\ (ev.mobActed /\ player.hp <= 0) => ev.defeat
        /\ ~(player.hp <= 0 /\ combat # NoMob)

\* the step is a tick of the punitive build that resolved a defeat
PunitiveDefeat == ev'.op = "tick" /\ ev'.defeat /\ build = "punitive"

\* the step took one point off attribute s (not below 5) and left the others
CutOnly(s) ==
    /\ player'[s] = Max(5, player[s] - 1)
    /\ \A o \in StatTypes \ {s} : player'[o] = player[o]

\* C27: in the punitive build a defeat sets the level to max(1, level - 1)
\* and the threshold to the new level x 100, revives to full hp, takes away
\* one unspent attribute point or, when none is unspent, one point of an
\* attribute that is highest (never below 5), and moves the player one zone
\* back unless in the first zone.
C27_PunitiveDefeatPolicy ==
    [][PunitiveDefeat =>
         /\ player'.level = Max(1, player.level - 1)
         /\ player'.maxXp = player'.level * 100
         /\ player'.hp = derivedStats'.maxHp
         /\ IF player.attributePoints > 0
            THEN /\ player'.attributePoints = player.attributePoints - 1
                 /\ \A s \in StatTypes : player'[s] = player[s]
            ELSE /\ player'.attributePoints = 0
                 /\ \E s \in StatTypes :
                       /\ \A o \in StatTypes : player[o] <= player[s]
                       /\ CutOnly(s)
         /\ zone' = IF zone > 1 THEN zone - 1 ELSE zone]_vars

\* the fields of the character a defeat of the lenient build has to leave alone
KeptInDefeat ==
    {"level", "xp", "maxXp", "str", "agi", "int", "sta", "attributePoints",
     "skillPoints", "skills", "gold", "mobsKilled"}

\* C28: in the lenient build a defeat revives the character to full hp and
\* ends the encounter, and costs nothing: level, xp, threshold, the four
\* attributes, unspent attribute points, skill points and ranks, gold, kill
\* counter, equipment, inventory and zone are what they were.
C28_LenientDefeatNoPenalty ==
    [][(ev'.op = "tick" /\ ev'.defeat /\ build = "lenient") =>
         /\ player'.hp = derivedStats'.maxHp
         /\ combat' = NoMob
         /\ \A f \in KeptInDefeat : player'[f] = player[f]
         /\ UNCHANGED <<equipment, inventory, zone>>]_vars

\* the lenient build has revived, in the second zone, a level-10 character
\* with an attribute point staged and another unspent
C28_Witness ==
    /\ AfterTick /\ ev.defeat /\ build = "lenient"
    /\ zone = 2 /\ player.level = 10
    /\ player.hp = derivedStats.maxHp /\ player.hp > 0
    /\ tempPointsSpent = 1 /\ player.attributePoints = 2
    /\ combat = NoMob

\* C29: after every tick the encounter is idle, exactly when the tick
\* resolved a kill or a defeat, or holds a monster with 0 < hp <= max hp; no
\* monster with hp <= 0 is left live; and while an encounter lasts, whatever
\* the handler, it stays the same monster and its hp never goes up.
C29_EncounterWellFormed ==
    [][/\ ev'.op = "tick" =>
             /\ (combat' = NoMob) <=> (ev'.kill \/ ev'.defeat)
             /\ combat' # NoMob => (0 < combat'.hp /\ combat'.hp <= combat'.maxHp)
       /\ (combat # NoMob /\ combat' # NoMob) =>
             /\ combat'.template = combat.template
             /\ combat'.maxHp = combat.maxHp
             /\ combat'.hp <= combat.hp]_vars

\* a second tick on the same monster: it lost health in both and is still
\* alive, and it hit back
C29_Witness ==
    /\ AfterTick /\ ~ev.spawned /\ ev.playerActed /\ ev.mobActed
    /\ combat # NoMob
    /\ 0 < combat.hp /\ combat.hp < combat.maxHp

SkillTotal(p) ==
    p.skillPoints + SumOver([i \in 1..Len(p.skills) |-> p.skills[i].rank],
                            1..Len(p.skills))

SkillsBalanced(p) == SkillTotal(p) = Max(0, p.level - (SkillUnlockLevel - 1))

\* C31: unspent skill points plus the learned ranks equal max(0, level - 9)
\* in every state reachable from character creation: no handler of a running
\* game breaks the balance, a defeat and the level-ups after it included.
C31_SkillPointsBalanced ==
    [][(InGame /\ InGame' /\ SkillsBalanced(player)) => SkillsBalanced(player')]_vars

\* C32: after a character is created in an empty slot, the state in memory
\* is the fresh one written to the slot: no equipment, an empty inventory,
\* the first zone and no encounter, whatever was played before.
C32_CreatedCharacterIsFresh ==
    (ev.op = "create" /\ ev.ok) =>
        /\ equipment = EmptyEquipment
        /\ inventory = << >>
        /\ zone = 1
        /\ combat = NoMob
        /\ storage[currentSlot] =
              Serialize([player |-> player, equipment |-> equipment,
                         inventory |-> inventory, zoneId |-> ZONES[zone].id],
                        storage[currentSlot].timestamp)

\* C33: after every tick the experience is within its threshold,
\* 0 <= xp < maxXp, whatever the tick resolved: a kill, a boss kill by a
\* low-level character, or a defeat.
C33_XpBelowThreshold ==
    AfterTick => (0 <= player.xp /\ player.xp < player.maxXp)

\* C34: right after a level-up the character is at full health: hp is the
\* max HP derived from the attributes and the equipment as the level-up
\* leaves them, a stamina point it allocated itself included.
C34_LevelUpHealsToFull ==
    (AfterTick /\ ev.levelUp) => player.hp = derivedStats.maxHp

\* the attributes a level-up to newLvl raises under the given mode
Allocated(mode, newLvl) ==
    IF mode \in StatTypes THEN {mode}
    ELSE IF mode = "str_agi" THEN (IF newLvl % 2 = 0 THEN {"str"} ELSE {"agi"})
    ELSE IF mode = "int_sta" THEN (IF newLvl % 2 = 0 THEN {"int"} ELSE {"sta"})
    ELSE {}

\* C35: a level-up grants exactly one attribute point: in mode 'manual' the
\* unspent points rise by 1 and no attribute changes; in a single-attribute
\* mode that attribute rises by 1; in a two-attribute mode the first rises
\* when the new level is even, the second when it is odd; in every auto mode
\* the unspent points stay.
C35_LevelUpGrantsOnePoint ==
    [][(ev'.op = "tick" /\ ev'.levelUp) =>
          LET mode == player.autoAllocMode
              up   == Allocated(mode, player'.level)
          IN  /\ player'.level = player.level + 1
              /\ \A s \in StatTypes :
                    player'[s] = player[s] + (IF s \in up THEN 1 ELSE 0)
              /\ Cardinality(up) = (IF mode = "manual" THEN 0 ELSE 1)
              /\ player'.attributePoints =
                    player.attributePoints + (IF mode = "manual" THEN 1 ELSE 0)]_vars

\* a level-up to the odd level 11 in mode int_sta raised the stamina
C35_Witness ==
    /\ AfterTick /\ ev.levelUp
    /\ player.autoAllocMode = "int_sta"
    /\ player.level = SkillUnlockLevel + 1
    /\ player.sta = 6 /\ player.int = 5

\* the gold a tick's drop brought in: the value of the drop the god option
\* salvaged, or of the item it replaced
Salvage ==
    IF ev'.loot = "salvaged" THEN ev'.item.value
    ELSE IF ev'.loot = "equipped" /\ equipment[ev'.item.slot] # NoItem
         THEN equipment[ev'.item.slot].value
    ELSE 0

PointTotal(p) == p.str + p.agi + p.int + p.sta + p.attributePoints

\* C38: a reset of the attributes that succeeds (gold >= 1000) conserves the
\* attribute points: strength + agility + intellect + stamina + unspent
\* points is the same after as before, the gold falls by exactly 1000 and
\* the staged allocations are cleared.
C38_ResetConservesPoints ==
    [][(ev'.op = "reset_stats" /\ ev'.ok) =>
          /\ PointTotal(player') = PointTotal(player)
          /\ player'.gold = player.gold - ResetPrice
          /\ tempAlloc' = NoAlloc]_vars

\* C39: in every state reachable from character creation each equipped item
\* has a required level no greater than the character's level, however it
\* was put on, and also after a defeat has lowered the level.
C39_EquippedWithinLevel ==
    InGame => \A slot \in ItemSlots :
                 equipment[slot] # NoItem => equipment[slot].reqLevel <= player.level

\* C40: a mystery purchase that takes its 2000 gold always delivers an item:
\* the generated item is equipped, added to the inventory or salvaged for
\* its value; the gold is never taken for nothing and is never negative
\* afterwards.
C40_MysteryPurchaseDelivers ==
    [][(ev'.op = "buy_mystery" /\ ev'.ok) =>
          /\ ev'.loot \in {"equipped", "stored", "salvaged"}
          /\ player'.gold >= 0]_vars

====
